---------------------------- MODULE Spec2Model ----------------------------
(***************************************************************************)
(* A model of the ragmaker ingestion and query services:                   *)
(*   - YouTubeRateLimiter (src/src/services/youtubeRateLimiter.js)         *)
(*   - the indexing run of POST /api/index-channel (src/src/api/server.js) *)
(*   - VectorStoreService (src/unnamed/part_008) and RAGService.query      *)
(*     (src/reports/rate-limiting-implementation-2025-08-18.md, 249-373)   *)
(*   - YouTubeService.getVideoTranscript, the video selection of           *)
(*     getChannelTranscripts and the catalog methods                       *)
(*     (src/src/services/youtube.js)                                       *)
(*   - EmbeddingService and ChannelManager                                 *)
(*     (src/src/services/channelManager.js)                                *)
(*   - the project endpoints of server.js and CacheManager                 *)
(*     (src/unnamed/part_007)                                              *)
(* Each subsystem has its own specification over the shared variables:     *)
(* SpecQuota, SpecRetry (SpecRetryFair with fairness), SpecClock,          *)
(* SpecMeter, SpecIndex (SpecIndexFair with fairness), SpecRag,            *)
(* SpecTranscript, SpecSelection, SpecEmbed, SpecCatalog, SpecLoop,        *)
(* SpecDuration, SpecClassify, SpecProject, SpecChannels and SpecCache.    *)
(***************************************************************************)
EXTENDS Integers, Sequences, FiniteSets, TLC

VARIABLES
  \* ---- YouTubeRateLimiter
  quotaUsed,      \* this.quotaUsed
  quotaLimit,     \* this.quotaLimit
  reservoir,      \* the Bottleneck limiter's reservoir
  quotaFile,      \* data/youtube-quota.json
  limiterInit,    \* position of initialize(): "load", "check", "ready"
  resetDue,       \* now >= this.quotaResetDate
  boundaries,     \* reset boundaries passed so far
  calls,          \* the submitted executeWithRateLimit calls
  \* ---- indexing run (server.js)
  indexingStatus, \* the global indexingStatus object
  runs,           \* the background runs in progress, one slot per run (idle = free)
  indexingLogs,   \* the ledger
  channels,       \* channelManager.channels
  requests,       \* HTTP requests answered so far (bounded)
  \* ---- vector store and RAG query
  vstore,         \* the records held by the vector backend
  storeCall,      \* the last call of VectorStoreService (upsertBatch or query)
  rag,            \* the RAGService.query in progress and its response
  \* ---- YouTubeService
  transcriptCall, \* the getVideoTranscript call in progress and its result
  selection,      \* the last video selection of getChannelTranscripts
  clock,          \* wall-clock time, the time zone and quotaResetDate
  meter,          \* quotaUsed and the threshold events emitted since the last reset
  embed,          \* one EmbeddingService.processVideo call
  catalogCall,    \* one call of a YouTubeService catalog method
  transcriptLoop, \* the per-video loop of getChannelTranscripts
  durationCall,   \* one parseDuration call
  classified,     \* the last error message categorize was applied to, with its category
  projectState,   \* upstashManager projects, the global vectorStore and one run
  cacheState      \* CacheManager: the two maps, the clock and the last get

quotaVars == <<quotaUsed, quotaLimit, reservoir, quotaFile, limiterInit, resetDue, boundaries, calls>>
indexVars == <<indexingStatus, runs, indexingLogs, channels, requests>>
storeVars == <<vstore, storeCall, rag>>
youtubeVars == <<transcriptCall, selection>>
vars == <<quotaVars, indexVars, storeVars, youtubeVars, clock, meter, embed, catalogCall, transcriptLoop, durationCall, classified, projectState, cacheState>>

\* What the actions of one subsystem leave alone.
quotaFrame == UNCHANGED <<indexVars, storeVars, youtubeVars, clock, meter, embed, catalogCall, transcriptLoop, durationCall, classified, projectState, cacheState>>
indexFrame == UNCHANGED <<quotaVars, storeCall, rag, youtubeVars, clock, meter, embed, catalogCall, transcriptLoop, durationCall, classified, projectState, cacheState>>
storeFrame == UNCHANGED <<quotaVars, indexVars, youtubeVars, clock, meter, embed, catalogCall, transcriptLoop, durationCall, classified, projectState, cacheState>>
transcriptFrame == UNCHANGED <<quotaVars, indexVars, storeVars, selection, clock, meter, embed, catalogCall, transcriptLoop, durationCall, classified, projectState, cacheState>>
selectionFrame == UNCHANGED <<quotaVars, indexVars, storeVars, transcriptCall, clock, meter, embed, catalogCall, transcriptLoop, durationCall, classified, projectState, cacheState>>
clockFrame == UNCHANGED <<quotaVars, indexVars, storeVars, youtubeVars, meter, embed, catalogCall, transcriptLoop, durationCall, classified, projectState, cacheState>>
meterFrame == UNCHANGED <<quotaVars, indexVars, storeVars, youtubeVars, clock, embed, catalogCall, transcriptLoop, durationCall, classified, projectState, cacheState>>
embedFrame == UNCHANGED <<quotaVars, indexVars, storeVars, youtubeVars, clock, meter, catalogCall, transcriptLoop, durationCall, classified, projectState, cacheState>>
catalogFrame == UNCHANGED <<quotaVars, indexVars, storeVars, youtubeVars, clock, meter, embed, transcriptLoop, durationCall, classified, projectState, cacheState>>
loopFrame == UNCHANGED <<quotaVars, indexVars, storeVars, youtubeVars, clock, meter, embed, catalogCall, durationCall, classified, projectState, cacheState>>
durationFrame == UNCHANGED <<quotaVars, indexVars, storeVars, youtubeVars, clock, meter, embed, catalogCall, transcriptLoop, classified, projectState, cacheState>>
classifyFrame == UNCHANGED <<quotaVars, indexVars, storeVars, youtubeVars, clock, meter, embed, catalogCall, transcriptLoop, durationCall, projectState, cacheState>>
projectFrame == UNCHANGED <<quotaVars, indexVars, storeVars, youtubeVars, clock, meter, embed, catalogCall, transcriptLoop, durationCall, classified, cacheState>>
cacheFrame == UNCHANGED <<quotaVars, indexVars, storeVars, youtubeVars, clock, meter, embed, catalogCall, transcriptLoop, durationCall, classified, projectState>>

(***************************************************************************)
(* Bounds                                                                  *)
(***************************************************************************)
MaxCalls == 2
MaxInvocations == 2
MaxBoundaries == 1
MaxRuns == 2
NumVideos == 2
MaxChunks == 1
MaxRequests == 3
MaxTopK == 3
MaxSegments == 2
MaxChannelVideos == 3
MaxLimit == 2
MaxRetryCallers == 1
MaxHours == 48
MaxDebits == 3
MaxTranscriptLen == 4
MaxPages == 2
MaxProjects == 3
MaxIdList == 2
MaxCacheTime == 4
MaxTtl == 2
MaxMetadataBatches == 2
\* config.embedding.chunkSize and chunkOverlap (500 and 100), scaled down.
chunkSize == 3
chunkOverlap == 1

Calls == 1 .. MaxCalls

(***************************************************************************)
(* YouTubeRateLimiter                                                      *)
(***************************************************************************)
defaultQuotaLimit == 50000
maxConcurrent == 10
retryDelays == <<500, 1000, 2000, 5000, 10000>>
NoRetry == 0 - 1

quotaCosts ==
  [m \in {"channels.list", "videos.list", "playlistItems.list", "search.list",
          "captions.list", "captions.download", "comments.list", "commentThreads.list"} |->
     CASE m = "search.list" -> 100
       [] m = "captions.list" -> 50
       [] m = "captions.download" -> 200
       [] OTHER -> 1]

\* The methods submitted in the model: a cheap one, two expensive ones, one
\* written with the 'youtube.' prefix and one the cost table does not know.
Methods == {"channels.list", "search.list", "captions.download", "youtube.search.list", "thumbnails.set"}

\* method.replace('youtube.', '').replace('youtube/v3/', '')
methodName(method) ==
  IF method = "youtube.search.list" THEN "search.list" ELSE method

getQuotaCost(method) ==
  IF methodName(method) \in DOMAIN quotaCosts THEN quotaCosts[methodName(method)] ELSE 1

getRemainingQuota == IF quotaLimit - quotaUsed > 0 THEN quotaLimit - quotaUsed ELSE 0

\* A quota check that compares the cost with the limit instead of with what
\* is left of it.
isQuotaAvailableOfLimit(method) == quotaLimit >= getQuotaCost(method)

isQuotaAvailable(method) == getRemainingQuota >= getQuotaCost(method)

\* What a previous process may have left in the quota file (saveQuotaInfo).
QuotaFiles ==
  {[exists |-> FALSE, used |-> 0, limit |-> defaultQuotaLimit, resetPassed |-> FALSE]} \cup
  [exists : {TRUE}, used : {0, defaultQuotaLimit - 100, defaultQuotaLimit - 1, defaultQuotaLimit},
   limit : {defaultQuotaLimit}, resetPassed : BOOLEAN]

saveQuotaInfo(used, limit) ==
  [exists |-> TRUE, used |-> used, limit |-> limit, resetPassed |-> FALSE]

\* A call of executeWithRateLimit or executeWithRetry. invoked counts the
\* invocations of apiCall, failure is how the last one failed ("none": it did
\* not), error is what the call rejected with, and loop is the index i of the
\* executeWithRetry loop (NoLoop for a direct executeWithRateLimit call).
NoLoop == 0 - 1
NewCall ==
  [method |-> "channels.list", st |-> "new", invoked |-> 0, failure |-> "none",
   error |-> "none", loop |-> NoLoop]

\* The limiter keys a job's status by options.id; executeWithRateLimit passes the
\* object {method, retryCount} as id, which is the same key for every job, and a
\* job whose id is still tracked (queued, executing or waiting to retry) is
\* rejected by schedule().
InLimiter(c) == calls[c].st \in {"queued", "running", "retryWait"}
idInUse == \E c \in Calls : InLimiter(c)

RECURSIVE SumWeights(_)
SumWeights(S) ==
  IF S = {} THEN 0
  ELSE LET c == CHOOSE x \in S : TRUE IN getQuotaCost(calls[c].method) + SumWeights(S \ {c})

\* The weight of the jobs the limiter is executing (counted against maxConcurrent).
runningWeight == SumWeights({c \in Calls : calls[c].st \in {"running", "retryWait"}})

\* limiter.on('failed'): retryCount is read from jobInfo.options.id, where it is
\* always 0, so the handler answers retryDelays[0] whenever it is registered.
failedHandler(retryCount) ==
  IF retryCount < Len(retryDelays) THEN retryDelays[retryCount + 1] ELSE NoRetry

InitQuota ==
  /\ quotaUsed = 0
  /\ quotaLimit = defaultQuotaLimit
  /\ reservoir = defaultQuotaLimit
  /\ quotaFile \in QuotaFiles
  /\ limiterInit = "load"
  /\ resetDue = FALSE
  /\ boundaries = 0
  /\ calls = [c \in Calls |-> NewCall]

\* resetQuota(): usage to 0, next boundary, reservoir refilled, saved. The new
\* boundary is taken to lie in the future here; nextResetDate computes it.
resetQuota ==
  /\ quotaUsed' = 0
  /\ resetDue' = FALSE
  /\ reservoir' = quotaLimit
  /\ quotaFile' = saveQuotaInfo(0, quotaLimit)

loadQuotaInfo ==
  /\ limiterInit = "load"
  /\ limiterInit' = "check"
  /\ IF quotaFile.exists
       THEN /\ quotaUsed' = quotaFile.used
            /\ quotaLimit' = quotaFile.limit
            /\ resetDue' = quotaFile.resetPassed
            /\ reservoir' = quotaFile.limit - quotaFile.used
            /\ UNCHANGED quotaFile
       ELSE resetQuota /\ UNCHANGED quotaLimit
  /\ UNCHANGED <<boundaries, calls>>
  /\ quotaFrame

\* initialize(), after loadQuotaInfo: checkQuotaReset, then the interval and the
\* limiter's event handlers are set up.
initialize ==
  /\ limiterInit = "check"
  /\ limiterInit' = "ready"
  /\ IF resetDue THEN resetQuota ELSE UNCHANGED <<quotaUsed, resetDue, reservoir, quotaFile>>
  /\ UNCHANGED <<quotaLimit, boundaries, calls>>
  /\ quotaFrame

\* Wall-clock time reaches quotaResetDate.
BoundaryPasses ==
  /\ limiterInit = "ready"
  /\ ~resetDue
  /\ boundaries < MaxBoundaries
  /\ resetDue' = TRUE
  /\ boundaries' = boundaries + 1
  /\ UNCHANGED <<quotaUsed, quotaLimit, reservoir, quotaFile, limiterInit, calls>>
  /\ quotaFrame

\* The periodic check (setInterval, every minute) when the boundary has passed.
checkQuotaReset ==
  /\ limiterInit = "ready"
  /\ resetDue
  /\ resetQuota
  /\ UNCHANGED <<quotaLimit, limiterInit, boundaries, calls>>
  /\ quotaFrame

\* executeWithRateLimit up to limiter.schedule(): the quota check, then the
\* limiter's own admission (duplicate id, weight above maxConcurrent).
schedule(call, method) ==
  LET attempt == [call EXCEPT !.method = method, !.failure = "none"]
  IN IF ~isQuotaAvailable(method)
       THEN [attempt EXCEPT !.st = "rejected", !.error = "InsufficientQuota"]
     ELSE IF idInUse
       THEN [attempt EXCEPT !.st = "rejected", !.error = "DuplicateJobId"]
     ELSE IF getQuotaCost(method) > maxConcurrent
       THEN [attempt EXCEPT !.st = "rejected", !.error = "WeightAboveMaxConcurrent"]
     ELSE [attempt EXCEPT !.st = "queued", !.error = "none"]

executeWithRateLimit(c, method) ==
  /\ calls[c].st = "new"
  /\ \A d \in Calls : d < c => calls[d].st # "new"
  /\ calls' = [calls EXCEPT ![c] = schedule(calls[c], method)]
  /\ UNCHANGED <<quotaUsed, quotaLimit, reservoir, quotaFile, limiterInit, resetDue, boundaries>>
  /\ quotaFrame

\* The limiter starts a queued job when the reservoir and the concurrency
\* ceiling admit its weight; the job's weight is taken from the reservoir and
\* apiCall is invoked.
limiterStart(c) ==
  /\ calls[c].st = "queued"
  /\ getQuotaCost(calls[c].method) <= reservoir
  /\ runningWeight + getQuotaCost(calls[c].method) <= maxConcurrent
  /\ reservoir' = reservoir - getQuotaCost(calls[c].method)
  /\ calls' = [calls EXCEPT ![c].st = "running", ![c].invoked = @ + 1]
  /\ UNCHANGED <<quotaUsed, quotaLimit, quotaFile, limiterInit, resetDue, boundaries>>
  /\ quotaFrame

\* quotaResetDate is null until loadQuotaInfo has read the file or reset the
\* quota; saveQuotaInfo calls quotaResetDate.toISOString() outside its try
\* block, so until then it throws a TypeError instead of writing the file.
quotaResetDateSet == limiterInit # "load"

\* A debit that is not saved.
updateQuotaUsageUnsaved(method) ==
  /\ quotaUsed' = quotaUsed + getQuotaCost(method)
  /\ reservoir' = IF quotaLimit - quotaUsed' > 0 THEN quotaLimit - quotaUsed' ELSE 0
  /\ quotaFile' = quotaFile

\* updateQuotaUsage(method): the debit, the reservoir update and the save.
updateQuotaUsage(method) ==
  /\ quotaUsed' = quotaUsed + getQuotaCost(method)
  /\ reservoir' = IF quotaLimit - quotaUsed' > 0 THEN quotaLimit - quotaUsed' ELSE 0
  /\ quotaFile' = IF quotaResetDateSet THEN saveQuotaInfo(quotaUsed', quotaLimit) ELSE quotaFile

\* apiCall resolves: the scheduled function debits the quota and returns. If
\* the save throws, the job fails after the debit; that can only happen before
\* initialize() has registered the 'failed' handler, so the call rejects.
apiCallSucceeds(c) ==
  /\ calls[c].st = "running"
  /\ updateQuotaUsage(calls[c].method)
  /\ calls' = IF quotaResetDateSet
                THEN [calls EXCEPT ![c].st = "resolved", ![c].failure = "none"]
                ELSE [calls EXCEPT ![c].st = "rejected", ![c].failure = "none",
                                   ![c].error = "TypeError"]
  /\ UNCHANGED <<quotaLimit, limiterInit, resetDue, boundaries>>
  /\ quotaFrame

ApiErrors == {"quotaExceeded403", "notFound404", "tooManyRequests429", "network"}

\* apiCall rejects. With the 'failed' handler registered the limiter retries the
\* job after the delay the handler returns; without it the job's promise
\* rejects and the catch block of executeWithRateLimit runs.
apiCallFails(c, err) ==
  /\ calls[c].st = "running"
  /\ IF limiterInit = "ready" /\ failedHandler(0) # NoRetry
       THEN /\ calls' = [calls EXCEPT ![c].st = "retryWait", ![c].failure = err,
                                        ![c].error = err]
            /\ UNCHANGED <<quotaUsed, quotaFile>>
       ELSE IF err = "quotaExceeded403"
         THEN /\ quotaUsed' = quotaLimit
              /\ quotaFile' = IF quotaResetDateSet THEN saveQuotaInfo(quotaLimit, quotaLimit) ELSE quotaFile
              /\ calls' = [calls EXCEPT ![c].st = "rejected", ![c].failure = err,
                                        ![c].error = IF quotaResetDateSet THEN "QuotaExceeded" ELSE "TypeError"]
         ELSE /\ calls' = [calls EXCEPT ![c].st = "rejected", ![c].failure = err,
                                        ![c].error = err]
              /\ UNCHANGED <<quotaUsed, quotaFile>>
  /\ UNCHANGED <<quotaLimit, reservoir, limiterInit, resetDue, boundaries>>
  /\ quotaFrame

\* The limiter re-runs a failed job once its retry delay has elapsed. The
\* count of invocations stops at MaxInvocations (it then reads "at least").
limiterRetry(c) ==
  /\ calls[c].st = "retryWait"
  /\ calls' = [calls EXCEPT ![c].st = "running",
                            ![c].invoked = IF @ < MaxInvocations THEN @ + 1 ELSE @]
  /\ UNCHANGED <<quotaUsed, quotaLimit, reservoir, quotaFile, limiterInit, resetDue, boundaries>>
  /\ quotaFrame

NextQuota ==
  \/ loadQuotaInfo
  \/ initialize
  \/ BoundaryPasses
  \/ checkQuotaReset
  \/ \E c \in Calls, m \in Methods : executeWithRateLimit(c, m)
  \/ \E c \in Calls : limiterStart(c)
  \/ \E c \in Calls : apiCallSucceeds(c)
  \/ \E c \in Calls, e \in ApiErrors : apiCallFails(c, e)
  \/ \E c \in Calls : limiterRetry(c)

(***************************************************************************)
(* YouTubeRateLimiter.executeWithRetry                                     *)
(***************************************************************************)
maxRetries == 5

\* error.message?.includes('quota')
messageIncludesQuota(error) == error \in {"InsufficientQuota", "QuotaExceeded", "quotaExceeded403"}

\* error.code (0: the error carries none)
errorCode(error) ==
  CASE error = "quotaExceeded403" -> 403
    [] error = "notFound404" -> 404
    [] error = "tooManyRequests429" -> 429
    [] OTHER -> 0

\* The two early throws of the catch block of executeWithRetry.
throwsFromRetry(error) ==
  \/ messageIncludesQuota(error)
  \/ errorCode(error) >= 400 /\ errorCode(error) < 500 /\ errorCode(error) # 429

\* executeWithRetry is called: i = 0 and the first executeWithRateLimit.
executeWithRetry(c, method) ==
  /\ calls[c].st = "new"
  /\ \A d \in Calls : d < c => calls[d].st # "new"
  /\ Cardinality({d \in Calls : calls[d].loop # NoLoop}) < MaxRetryCallers
  /\ calls' = [calls EXCEPT ![c] = schedule([calls[c] EXCEPT !.loop = 0], method)]
  /\ UNCHANGED <<quotaUsed, quotaLimit, reservoir, quotaFile, limiterInit, resetDue, boundaries>>
  /\ quotaFrame

\* executeWithRateLimit has rejected inside the loop: the catch block.
retryCatch(c) ==
  /\ calls[c].st = "rejected"
  /\ calls[c].loop # NoLoop
  /\ calls' = [calls EXCEPT ![c].st = IF throwsFromRetry(calls[c].error) THEN "thrown" ELSE "backoff"]
  /\ UNCHANGED <<quotaUsed, quotaLimit, reservoir, quotaFile, limiterInit, resetDue, boundaries>>
  /\ quotaFrame

\* The delay retryDelays[min(i, 4)] has elapsed: i++, and either the next
\* executeWithRateLimit or, after maxRetries rounds, throw lastError.
retryDelayDone(c) ==
  /\ calls[c].st = "backoff"
  /\ calls' = [calls EXCEPT ![c] =
       IF calls[c].loop + 1 < maxRetries
         THEN schedule([calls[c] EXCEPT !.loop = @ + 1], calls[c].method)
         ELSE [calls[c] EXCEPT !.st = "thrown"]]
  /\ UNCHANGED <<quotaUsed, quotaLimit, reservoir, quotaFile, limiterInit, resetDue, boundaries>>
  /\ quotaFrame

NextRetry ==
  \/ loadQuotaInfo
  \/ initialize
  \/ \E c \in Calls, m \in Methods : executeWithRetry(c, m)
  \/ \E c \in Calls, m \in Methods : executeWithRateLimit(c, m)
  \/ \E c \in Calls : limiterStart(c)
  \/ \E c \in Calls : apiCallSucceeds(c)
  \/ \E c \in Calls, e \in ApiErrors : apiCallFails(c, e)
  \/ \E c \in Calls : limiterRetry(c)
  \/ \E c \in Calls : retryCatch(c)
  \/ \E c \in Calls : retryDelayDone(c)


(***************************************************************************)
(* Strings the code takes apart or builds are sequences of characters.     *)
(***************************************************************************)
startsWith(s, prefix) ==
  Len(s) >= Len(prefix) /\ SubSeq(s, 1, Len(prefix)) = prefix

\* `${video.videoId}_chunk_${chunk.metadata.chunkIndex}`
chunkId(videoId, index) ==
  videoId \o <<"_", "c", "h", "u", "n", "k", "_">> \o <<ToString(index)>>

(***************************************************************************)
(* VectorStoreService (src/unnamed/part_008)                               *)
(***************************************************************************)
defaultBatchSize == 100

\* A prefix applied whatever the namespace: the empty namespace gives "_<id>".
namespacedAlways(ns, chunk) == [chunk EXCEPT !.id = ns \o <<"_">> \o chunk.id]

\* A chunk as stored: `${this.namespace}_${chunk.id}` when the namespace is
\* truthy (non-empty), the chunk itself otherwise.
namespaced(ns, chunk) ==
  IF ns # <<>> THEN [chunk EXCEPT !.id = ns \o <<"_">> \o chunk.id] ELSE chunk

namespacedBatch(ns, batch) == [k \in 1 .. Len(batch) |-> namespaced(ns, batch[k])]

\* Slicing that stops before a last, shorter slice.
RECURSIVE batchesOfFull(_, _)
batchesOfFull(chunks, batchSize) ==
  IF Len(chunks) < batchSize THEN <<>>
  ELSE <<SubSeq(chunks, 1, batchSize)>> \o batchesOfFull(SubSeq(chunks, batchSize + 1, Len(chunks)), batchSize)

\* The slices chunks.slice(i, i + batchSize) for i = 0, batchSize, ...
RECURSIVE batchesOf(_, _)
batchesOf(chunks, batchSize) ==
  IF Len(chunks) = 0 THEN <<>>
  ELSE IF Len(chunks) <= batchSize THEN <<chunks>>
  ELSE <<SubSeq(chunks, 1, batchSize)>> \o batchesOf(SubSeq(chunks, batchSize + 1, Len(chunks)), batchSize)

\* index.upsert: a record replaces the stored record of the same id.
backendUpsert(store, batch) ==
  LET records == {batch[k] : k \in 1 .. Len(batch)}
  IN {x \in store : \A y \in records : y.id # x.id} \cup records

RECURSIVE applyUpserts(_, _)
applyUpserts(store, batches) ==
  IF batches = <<>> THEN store
  ELSE applyUpserts(backendUpsert(store, Head(batches)), Tail(batches))

\* The batches upsertBatch sends when the backend call number failAt throws
\* (failAt = 0: none throws): the loop stops at the first throw.
sentBatches(ns, chunks, batchSize, failAt) ==
  LET all == batchesOf(chunks, batchSize)
      n == IF failAt = 0 THEN Len(all) ELSE failAt
  IN [k \in 1 .. n |-> namespacedBatch(ns, all[k])]

\* The batches of sentBatches that the backend stored.
storedBatches(sent, failAt) ==
  IF failAt = 0 THEN sent ELSE SubSeq(sent, 1, failAt - 1)

take(s, n) == SubSeq(s, 1, IF Len(s) < n THEN Len(s) ELSE n)

\* A query that truncates to topK without the namespace filter.
queryResultUnfiltered(ns, topK, results) == take(results, topK)

\* query(): the namespace filter and the truncation to topK.
queryResult(ns, topK, results) ==
  IF ns # <<>>
    THEN take(SelectSeq(results, LAMBDA r : r.id # <<>> /\ startsWith(r.id, ns \o <<"_">>)), topK)
    ELSE take(results, topK)

\* What the backend may answer to a query for n results: any ranking of
\* min(n, stored) stored records.
Rankings(store, n) ==
  LET m == IF Cardinality(store) < n THEN Cardinality(store) ELSE n
  IN {s \in [1 .. m -> store] : \A a, b \in 1 .. m : a # b => s[a] # s[b]}

(***************************************************************************)
(* The indexing run: POST /api/index-channel, /api/cancel-indexing and     *)
(* /api/reset of server.js, with getChannelTranscripts of youtube.js.      *)
(***************************************************************************)
Runs == 1 .. MaxRuns

AllVideos == << <<"v", "1">>, <<"v", "2">>, <<"v", "3">>, <<"v", "4">> >>
\* The uploads of the one channel of the model, in playlist order.
catalog == SubSeq(AllVideos, 1, NumVideos)

\* The channel is addressed by its canonical id or by its handle.
ChannelInputs == {"UCa", "@a"}
canonicalId == "UCa"

FailCategories == {"NO_CAPTIONS"}
TranscriptOutcomes == {"Success"} \cup FailCategories
\* What getVideoTranscript answers for each video of the channel.
Outcomes == [{catalog[k] : k \in 1 .. Len(catalog)} -> TranscriptOutcomes]

NoChannel == [exists |-> FALSE, videoCount |-> 0, totalChunks |-> 0, indexedVideos |-> <<>>]

\* The indexingStatus object. hasSuccess / hasFailed tell whether the
\* successVideos / failedVideos properties exist on the current object.
fullStatus ==
  [isIndexing |-> TRUE, message |-> "Starting indexing process...",
   totalVideos |-> 0, processedVideos |-> 0, cancelled |-> FALSE,
   hasSuccess |-> TRUE, successVideos |-> <<>>, hasFailed |-> TRUE, failedVideos |-> <<>>]

\* A catch block that leaves isIndexing set.
errorStatusStillIndexing(message, cancelled) ==
  [isIndexing |-> TRUE, message |-> message,
   totalVideos |-> 0, processedVideos |-> 0, cancelled |-> cancelled,
   hasSuccess |-> FALSE, successVideos |-> <<>>, hasFailed |-> FALSE, failedVideos |-> <<>>]

\* The object the run's catch block installs.
errorStatus(message, cancelled) ==
  [isIndexing |-> FALSE, message |-> message,
   totalVideos |-> 0, processedVideos |-> 0, cancelled |-> cancelled,
   hasSuccess |-> FALSE, successVideos |-> <<>>, hasFailed |-> FALSE, failedVideos |-> <<>>]

\* The object POST /api/reset installs (isIndexing, progress, message, channelId only).
resetStatus ==
  [isIndexing |-> FALSE, message |-> "",
   totalVideos |-> 0, processedVideos |-> 0, cancelled |-> FALSE,
   hasSuccess |-> FALSE, successVideos |-> <<>>, hasFailed |-> FALSE, failedVideos |-> <<>>]

IdleRun ==
  [pc |-> "idle", skipExisting |-> FALSE, skipList |-> <<>>,
   transcripts |-> <<>>, selected |-> 0, i |-> 0, embeddings |-> <<>>,
   indexedVideoIds |-> <<>>]

ActivePcs == {"fetching", "embedding", "delay", "upserting", "addingVideos", "finishing"}
ActiveRun(r) == runs[r].pc \in ActivePcs

InSeq(x, s) == \E k \in 1 .. Len(s) : s[k] = x

isChannelIndexed(channelId) == channels[channelId].exists

getIndexedVideos(channelId) ==
  IF ~channels[channelId].exists THEN <<>> ELSE channels[channelId].indexedVideos

InitIndex ==
  /\ indexingStatus = [fullStatus EXCEPT !.isIndexing = FALSE, !.message = ""]
  /\ runs = [r \in Runs |-> IdleRun]
  /\ indexingLogs = <<>>
  /\ channels = [c \in ChannelInputs |-> NoChannel]
  /\ requests = [n |-> 0, last |-> "none"]

respond(answer) == requests' = [n |-> requests.n + 1, last |-> answer]

\* The catch block of the background run: the run ends and indexingStatus is
\* replaced, keeping only the cancelled flag of the current object.
runFails(r, message, status) ==
  /\ indexingStatus' = errorStatus(message, status.cancelled)
  /\ runs' = [runs EXCEPT ![r] = IdleRun]

\* A loop head that, on cancellation, stops the loop and goes on to upsert
\* what has been embedded so far.
loopHeadFinalizes(r, i, status, run) ==
  IF status.cancelled
    THEN /\ indexingStatus' = [status EXCEPT !.message = "Adding to knowledge base..."]
         /\ runs' = [runs EXCEPT ![r] = [run EXCEPT !.pc = "upserting"]]
    ELSE /\ indexingStatus' = [status EXCEPT !.processedVideos = i + 1,
                                             !.message = "Processing video"]
         /\ runs' = [runs EXCEPT ![r] = [run EXCEPT !.pc = "embedding", !.i = i]]

\* The head of the per-video loop for index i (0-based): the cancellation
\* check, then processedVideos = i + 1 and the call of processVideo.
loopHead(r, i, status, run) ==
  IF status.cancelled
    THEN /\ indexingStatus' = errorStatus("Error: Indexing cancelled by user", status.cancelled)
         /\ runs' = [runs EXCEPT ![r] = IdleRun]
    ELSE /\ indexingStatus' = [status EXCEPT !.processedVideos = i + 1,
                                             !.message = "Processing video"]
         /\ runs' = [runs EXCEPT ![r] = [run EXCEPT !.pc = "embedding", !.i = i]]

\* POST /api/index-channel: the handler and the background run up to its
\* first await (the call of getChannelTranscripts).
startIndexing(r, channelId, skipExisting) ==
  /\ runs[r].pc = "idle"
  /\ \A q \in Runs : q < r => runs[q].pc # "idle"
  /\ requests.n < MaxRequests
  /\ IF indexingStatus.isIndexing
       THEN /\ respond("409 Already indexing a channel")
            /\ UNCHANGED <<indexingStatus, runs>>
       ELSE IF ~skipExisting /\ isChannelIndexed(channelId)
         THEN /\ respond("200 Channel already indexed")
              /\ UNCHANGED <<indexingStatus, runs>>
         ELSE /\ respond("200 Indexing started")
              /\ indexingStatus' = [fullStatus EXCEPT !.message = "Fetching channel videos..."]
              /\ runs' = [runs EXCEPT ![r] =
                   [IdleRun EXCEPT !.pc = "fetching",
                                   !.skipExisting = skipExisting,
                                   !.skipList = IF skipExisting THEN getIndexedVideos(channelId) ELSE <<>>]]
  /\ UNCHANGED <<indexingLogs, channels, vstore>>
  /\ indexFrame

\* getChannelTranscripts throws (channel not found, a catalog call failing, no
\* video left after filtering): the run's catch block.
fetchFails(r) ==
  /\ runs[r].pc = "fetching"
  /\ runFails(r, "Error: catalog", indexingStatus)
  /\ UNCHANGED <<indexingLogs, channels, requests, vstore>>
  /\ indexFrame

\* getChannelTranscripts, lines 238-240 and 319-355, with no limit and
\* excludeShorts off: the videos not in skipExisting, each with the outcome of
\* getVideoTranscript given by `outcome`.
finalVideosToProcess(skipList) == SelectSeq(catalog, LAMBDA v : ~InSeq(v, skipList))

transcriptsOf(final, outcome) == SelectSeq(final, LAMBDA v : outcome[v] = "Success")

RECURSIVE failedOf(_, _)
failedOf(final, outcome) ==
  IF final = <<>> THEN <<>>
  ELSE IF outcome[Head(final)] = "Success" THEN failedOf(Tail(final), outcome)
  ELSE <<[videoId |-> Head(final), reason |-> outcome[Head(final)]]>> \o failedOf(Tail(final), outcome)

\* getChannelTranscripts returns; server.js lines 146-178.
fetchReturns(r, outcome) ==
  LET final == finalVideosToProcess(runs[r].skipList)
      transcripts == transcriptsOf(final, outcome)
      failed == failedOf(final, outcome)
      st1 == [indexingStatus EXCEPT !.totalVideos = Len(final)]
      st2 == IF Len(failed) > 0 THEN [st1 EXCEPT !.hasFailed = TRUE, !.failedVideos = failed] ELSE st1
      run1 == [runs[r] EXCEPT !.transcripts = transcripts, !.selected = Len(final)]
  IN /\ runs[r].pc = "fetching"
     /\ Len(final) > 0
     /\ IF Len(transcripts) = 0
          THEN runFails(r, "Error: No transcripts could be retrieved", st2)
          ELSE loopHead(r, 0, st2, run1)
     /\ UNCHANGED <<indexingLogs, channels, requests, vstore>>
     /\ indexFrame

\* processVideo: one record per chunk, in chunk order.
processVideo(video, nChunks) ==
  [k \in 1 .. nChunks |-> [id |-> chunkId(video, k - 1), videoId |-> video, chunk |-> k - 1]]

\* A per-video step without the inner try/catch: an embedding error ends the
\* run in the outer catch block.
videoDoneAborts(r, nChunks) ==
  LET video == runs[r].transcripts[runs[r].i + 1]
      chunks == processVideo(video, nChunks)
  IN /\ runs[r].pc = "embedding"
     /\ IF nChunks > 0 /\ indexingStatus.hasSuccess
          THEN /\ indexingStatus' = [indexingStatus EXCEPT !.successVideos =
                    Append(@, [videoId |-> video, chunksCreated |-> Len(chunks)])]
               /\ runs' = [runs EXCEPT ![r].pc = "delay", ![r].embeddings = @ \o chunks]
          ELSE runFails(r, "Error: Embedding failed", indexingStatus)
     /\ UNCHANGED <<indexingLogs, channels, requests, vstore>>
     /\ indexFrame

\* embeddingService.processVideo settles for transcripts[i]; server.js lines
\* 193-213. nChunks = 0 stands for processVideo throwing.
videoDone(r, nChunks) ==
  LET video == runs[r].transcripts[runs[r].i + 1]
      chunks == processVideo(video, nChunks)
      reason == IF nChunks = 0 THEN "Embedding failed"
                ELSE "Cannot read properties of undefined (reading 'push')"
  IN /\ runs[r].pc = "embedding"
     /\ IF nChunks > 0 /\ indexingStatus.hasSuccess
          THEN /\ indexingStatus' = [indexingStatus EXCEPT !.successVideos =
                    Append(@, [videoId |-> video, chunksCreated |-> Len(chunks)])]
               /\ runs' = [runs EXCEPT ![r].pc = "delay", ![r].embeddings = @ \o chunks]
          ELSE IF indexingStatus.hasFailed
            THEN /\ indexingStatus' = [indexingStatus EXCEPT !.failedVideos =
                      Append(@, [videoId |-> video, reason |-> reason])]
                 /\ runs' = [runs EXCEPT ![r].pc = "delay", ![r].embeddings = @ \o chunks]
            ELSE runFails(r, "Error: Cannot read properties of undefined", indexingStatus)
     /\ UNCHANGED <<indexingLogs, channels, requests, vstore>>
     /\ indexFrame

\* The 500 ms pause after a video, then the next loop head or, after the last
\* video, the call of vectorStore.indexChannel(embeddings).
delayDone(r) ==
  /\ runs[r].pc = "delay"
  /\ IF runs[r].i + 1 < Len(runs[r].transcripts)
       THEN loopHead(r, runs[r].i + 1, indexingStatus, runs[r])
       ELSE /\ indexingStatus' = [indexingStatus EXCEPT !.message = "Adding to knowledge base..."]
            /\ runs' = [runs EXCEPT ![r].pc = "upserting"]
  /\ UNCHANGED <<indexingLogs, channels, requests, vstore>>
  /\ indexFrame

\* The namespace of the vector store the server built at start (no project).
serverNamespace == <<>>

\* vectorStore.indexChannel(embeddings): upsertBatch with the default batch size.
indexChannel(store, embeddings) ==
  applyUpserts(store, sentBatches(serverNamespace, embeddings, defaultBatchSize, 0))

videoIdsOf(entries) == [k \in 1 .. Len(entries) |-> entries[k].videoId]

\* channelManager.addChannel / updateChannel as called on lines 234-246.
bookChannel(r) ==
  IF runs[r].skipExisting /\ isChannelIndexed(canonicalId)
    THEN [channels EXCEPT ![canonicalId].videoCount = @ + Len(runs[r].transcripts),
                          ![canonicalId].totalChunks = @ + Len(runs[r].embeddings)]
    ELSE [channels EXCEPT ![canonicalId] =
            [exists |-> TRUE, videoCount |-> Len(runs[r].transcripts),
             totalChunks |-> Len(runs[r].embeddings), indexedVideos |-> <<>>]]

\* vectorStore.indexChannel rejects: the run's catch block.
upsertFails(r) ==
  /\ runs[r].pc = "upserting"
  /\ runFails(r, "Error: upsert", indexingStatus)
  /\ UNCHANGED <<indexingLogs, channels, requests, vstore>>
  /\ indexFrame

\* vectorStore.indexChannel resolves; server.js lines 224-246 up to the await
\* of addChannel / updateChannel.
upsertReturns(r) ==
  /\ runs[r].pc = "upserting"
  /\ vstore' = indexChannel(vstore, runs[r].embeddings)
  /\ IF ~indexingStatus.hasSuccess
       THEN /\ runFails(r, "Error: Cannot read properties of undefined", indexingStatus)
            /\ UNCHANGED channels
       ELSE /\ indexingStatus' = indexingStatus
            /\ runs' = [runs EXCEPT ![r].pc = "addingVideos",
                                    ![r].indexedVideoIds = videoIdsOf(indexingStatus.successVideos)]
            /\ channels' = bookChannel(r)
  /\ UNCHANGED <<indexingLogs, requests>>
  /\ indexFrame

\* channelManager.addIndexedVideos(channelId, videoIds)
addIndexedVideos(chans, channelId, videoIds) ==
  LET existing == IF chans[channelId].exists THEN chans[channelId].indexedVideos ELSE <<>>
      newIds == SelectSeq(videoIds, LAMBDA v : ~InSeq(v, existing))
  IN [chans EXCEPT ![channelId].exists = TRUE, ![channelId].indexedVideos = existing \o newIds]

\* addChannel / updateChannel has saved; addIndexedVideos is called (line 239 / 247).
channelSaved(r) ==
  /\ runs[r].pc = "addingVideos"
  /\ channels' = addIndexedVideos(channels, canonicalId, runs[r].indexedVideoIds)
  /\ runs' = [runs EXCEPT ![r].pc = "finishing"]
  /\ UNCHANGED <<indexingStatus, indexingLogs, requests, vstore>>
  /\ indexFrame

\* The log entry of lines 256-266.
logEntry(r, status) ==
  [channelId |-> canonicalId, totalVideos |-> runs[r].selected,
   successCount |-> Len(status.successVideos), failedCount |-> Len(status.failedVideos),
   successVideos |-> status.successVideos, failedVideos |-> status.failedVideos]

\* addIndexedVideos has saved; lines 250-268.
finishRun(r) ==
  /\ runs[r].pc = "finishing"
  /\ IF indexingStatus.hasSuccess /\ indexingStatus.hasFailed
       THEN /\ indexingStatus' = [indexingStatus EXCEPT !.isIndexing = FALSE,
                                                        !.message = "Successfully indexed"]
            /\ runs' = [runs EXCEPT ![r] = IdleRun]
            /\ indexingLogs' = Append(indexingLogs, logEntry(r, indexingStatus))
       ELSE /\ runFails(r, "Error: Cannot read properties of undefined", indexingStatus)
            /\ UNCHANGED indexingLogs
  /\ UNCHANGED <<channels, requests, vstore>>
  /\ indexFrame

\* POST /api/cancel-indexing
cancelIndexing ==
  /\ requests.n < MaxRequests
  /\ IF indexingStatus.isIndexing
       THEN /\ indexingStatus' = [indexingStatus EXCEPT !.cancelled = TRUE,
                                                        !.message = "Cancelling indexing..."]
            /\ respond("200 Indexing cancellation requested")
       ELSE /\ respond("400 No indexing in progress")
            /\ UNCHANGED indexingStatus
  /\ UNCHANGED <<runs, indexingLogs, channels, vstore>>
  /\ indexFrame

\* POST /api/reset with the backend's reset succeeding.
resetStore ==
  /\ requests.n < MaxRequests
  /\ vstore' = {}
  /\ indexingStatus' = resetStatus
  /\ respond("200 Vector store reset successfully")
  /\ UNCHANGED <<runs, indexingLogs, channels>>
  /\ indexFrame

\* POST /api/reset with the backend's reset failing.
resetStoreFails ==
  /\ requests.n < MaxRequests
  /\ respond("500 Failed to reset vector store")
  /\ UNCHANGED <<indexingStatus, runs, indexingLogs, channels, vstore>>
  /\ indexFrame

NextIndex ==
  \/ \E r \in Runs, c \in ChannelInputs, s \in BOOLEAN : startIndexing(r, c, s)
  \/ \E r \in Runs : fetchFails(r)
  \/ \E r \in Runs, o \in Outcomes : fetchReturns(r, o)
  \/ \E r \in Runs, n \in 0 .. MaxChunks : videoDone(r, n)
  \/ \E r \in Runs : delayDone(r)
  \/ \E r \in Runs : upsertFails(r)
  \/ \E r \in Runs : upsertReturns(r)
  \/ \E r \in Runs : channelSaved(r)
  \/ \E r \in Runs : finishRun(r)
  \/ cancelIndexing
  \/ resetStore
  \/ resetStoreFails



(***************************************************************************)
(* VectorStoreService calls and RAGService.query                           *)
(***************************************************************************)
\* The credentials a VectorStoreService is built with: no namespace property,
\* the empty string, or the namespace "p".
Credentials ==
  {[hasNamespace |-> FALSE, namespace |-> <<>>],
   [hasNamespace |-> TRUE, namespace |-> <<>>],
   [hasNamespace |-> TRUE, namespace |-> <<"p">>]}

\* this.namespace = creds.namespace || ''
namespaceOf(creds) ==
  IF creds.hasNamespace /\ creds.namespace # <<>> THEN creds.namespace ELSE <<>>
TopKs == 1 .. MaxTopK
BatchSizes == {1, 2, defaultBatchSize}

X0 == [id |-> chunkId(<<"x">>, 0), videoId |-> <<"x">>, chunk |-> 0]
X1 == [id |-> chunkId(<<"x">>, 1), videoId |-> <<"x">>, chunk |-> 1]
Y0 == [id |-> chunkId(<<"y">>, 0), videoId |-> <<"y">>, chunk |-> 0]
\* The chunk lists handed to upsertBatch in the model: none, one chunk, or the
\* chunks of two videos; the store without namespace is not given the latter.
ChunkLists(ns) == IF ns = <<>> THEN {<<>>, <<X0>>} ELSE {<<>>, <<X0>>, <<X0, X1, Y0>>}

NoCall == [op |-> "none"]
IdleRag == [pc |-> "idle", ns |-> <<>>, topK |-> 0, failedStep |-> "none", raised |-> FALSE,
            answer |-> "none", sources |-> <<>>, chunks |-> <<>>, debugError |-> "null"]

InitStore ==
  /\ vstore = {}
  /\ storeCall = NoCall
  /\ rag = IdleRag

\* upsertBatch(chunks, batchSize) on a store built with creds.
upsertBatch(creds, chunks, batchSize, failAt) ==
  LET ns == namespaceOf(creds)
      sent == sentBatches(ns, chunks, batchSize, failAt)
  IN /\ rag.pc = "idle"
     /\ failAt <= Len(batchesOf(chunks, batchSize))
     /\ vstore' = applyUpserts(vstore, storedBatches(sent, failAt))
     /\ storeCall' = [op |-> "upsertBatch", creds |-> creds, ns |-> ns, chunks |-> chunks, batchSize |-> batchSize,
                      batches |-> sent, threw |-> failAt # 0]
     /\ UNCHANGED rag
     /\ storeFrame

queryCall(ns, topK, ranked) ==
  [op |-> "query", ns |-> ns, topK |-> topK, requested |-> topK * 3, backend |-> ranked,
   returned |-> queryResult(ns, topK, ranked), threw |-> FALSE]

queryThrows(ns, topK) ==
  [op |-> "query", ns |-> ns, topK |-> topK, requested |-> topK * 3, backend |-> <<>>,
   returned |-> <<>>, threw |-> TRUE]

\* query(queryEmbedding, topK) called directly (index.query answering).
query(creds, topK) ==
  /\ rag.pc = "idle"
  /\ \E ranked \in Rankings(vstore, topK * 3) : storeCall' = queryCall(namespaceOf(creds), topK, ranked)
  /\ UNCHANGED <<vstore, rag>>
  /\ storeFrame

\* query(queryEmbedding, topK) with index.query throwing: logged and rethrown.
queryFails(creds, topK) ==
  /\ rag.pc = "idle"
  /\ storeCall' = queryThrows(namespaceOf(creds), topK)
  /\ UNCHANGED <<vstore, rag>>
  /\ storeFrame

\* A map whose key moves to the end when it is inserted again.
RECURSIVE mapKeysLast(_, _)
mapKeysLast(keys, seen) ==
  IF keys = <<>> THEN seen
  ELSE mapKeysLast(Tail(keys), Append(SelectSeq(seen, LAMBDA x : x # Head(keys)), Head(keys)))

\* new Map(entries): a key keeps the position of its first insertion.
RECURSIVE mapKeys(_, _)
mapKeys(keys, seen) ==
  IF keys = <<>> THEN seen
  ELSE mapKeys(Tail(keys), IF InSeq(Head(keys), seen) THEN seen ELSE Append(seen, Head(keys)))

\* The sources and chunks of a generated answer.
sourcesOf(results) == mapKeys([k \in 1 .. Len(results) |-> results[k].videoId], <<>>)
chunksOf(results) == [k \in 1 .. Len(results) |-> [content |-> results[k].id]]

\* The message of the Error a step of RAGService.query throws.
thrownMessage(step) ==
  CASE step = "embedding" -> "embedding failed"
    [] step = "search" -> "vector query failed"
    [] step = "prompt" -> "profile not found"
    [] step = "generation" -> "completion failed"

\* A catch block that logs and rethrows instead of answering.
ragCatchRethrows(step) ==
  [rag EXCEPT !.pc = "done", !.failedStep = step, !.raised = TRUE]

\* The catch block of RAGService.query: a degraded answer, nothing thrown.
ragCatch(step) ==
  [rag EXCEPT !.pc = "done", !.failedStep = step, !.answer = "Sorry, I encountered an error",
              !.sources = <<>>, !.chunks = <<>>, !.debugError = thrownMessage(step)]

\* RAGService.query(question, topK) is called on a service whose vector store
\* has namespace ns; it awaits the question's embedding.
ragQuery(creds, topK) ==
  /\ rag.pc = "idle"
  /\ rag' = [IdleRag EXCEPT !.pc = "embedding", !.ns = namespaceOf(creds), !.topK = topK]
  /\ storeCall' = NoCall
  /\ UNCHANGED vstore
  /\ storeFrame

\* createEmbedding settles; on success vectorStore.query is called.
ragEmbedded(ok) ==
  /\ rag.pc = "embedding"
  /\ rag' = IF ok THEN [rag EXCEPT !.pc = "searching"] ELSE ragCatch("embedding")
  /\ UNCHANGED <<vstore, storeCall>>
  /\ storeFrame

\* vectorStore.query throws.
ragSearchFails ==
  /\ rag.pc = "searching"
  /\ storeCall' = queryThrows(rag.ns, rag.topK)
  /\ rag' = ragCatch("search")
  /\ UNCHANGED vstore
  /\ storeFrame

\* vectorStore.query returns: the fixed answer on no result, else the context
\* and the prompt are built (buildPrompt may throw) and the completion awaited.
ragSearched(promptOk) ==
  /\ rag.pc = "searching"
  /\ \E ranked \in Rankings(vstore, rag.topK * 3) :
       /\ storeCall' = queryCall(rag.ns, rag.topK, ranked)
       /\ rag' = IF Len(storeCall'.returned) = 0
                   THEN [rag EXCEPT !.pc = "done", !.answer = "I couldn't find any relevant information"]
                 ELSE IF ~promptOk THEN ragCatch("prompt")
                 ELSE [rag EXCEPT !.pc = "generating"]
  /\ UNCHANGED vstore
  /\ storeFrame

\* The completion settles.
ragGenerated(ok) ==
  /\ rag.pc = "generating"
  /\ rag' = IF ok THEN [rag EXCEPT !.pc = "done", !.answer = "generated",
                                   !.sources = sourcesOf(storeCall.returned),
                                   !.chunks = chunksOf(storeCall.returned)]
            ELSE ragCatch("generation")
  /\ UNCHANGED <<vstore, storeCall>>
  /\ storeFrame

\* The caller has the response.
ragReturn ==
  /\ rag.pc = "done"
  /\ rag' = IdleRag
  /\ UNCHANGED <<vstore, storeCall>>
  /\ storeFrame

NextRag ==
  \/ \E creds \in Credentials : \E cs \in ChunkLists(namespaceOf(creds)), b \in BatchSizes, f \in 0 .. 3 :
       upsertBatch(creds, cs, b, f)
  \/ \E creds \in Credentials, k \in TopKs : query(creds, k)
  \/ \E creds \in Credentials, k \in TopKs : queryFails(creds, k)
  \/ \E creds \in Credentials, k \in TopKs : ragQuery(creds, k)
  \/ \E ok \in BOOLEAN : ragEmbedded(ok)
  \/ ragSearchFails
  \/ \E p \in BOOLEAN : ragSearched(p)
  \/ \E ok \in BOOLEAN : ragGenerated(ok)
  \/ ragReturn

(***************************************************************************)
(* YouTubeService.getVideoTranscript (src/src/services/youtube.js)         *)
(***************************************************************************)
maxAttempts == 3
minTranscriptLength == 10

\* An error message, as the set of the keywords that its lower-cased text
\* includes.
Messages ==
  { {}, {"disabled"}, {"no transcript"}, {"private"}, {"structure"}, {"quota"},
    {"timeout"}, {"network"}, {"socket", "disabled"} }

\* A classification that looks for the timeout/network keywords first.
categorizeTransientFirst(msg) ==
  IF "timeout" \in msg \/ "timed out" \in msg \/ "network" \in msg
     \/ "econn" \in msg \/ "socket" \in msg THEN "TRANSIENT_ERROR"
  ELSE IF "disabled" \in msg THEN "CAPTIONS_DISABLED"
  ELSE IF "not available" \in msg \/ "no transcript" \in msg THEN "NO_CAPTIONS"
  ELSE IF "private" \in msg \/ "unavailable" \in msg \/ "age" \in msg THEN "PRIVATE_OR_RESTRICTED"
  ELSE IF "expandablemetadata" \in msg \/ "structure" \in msg THEN "STRUCTURE_UNSUPPORTED"
  ELSE IF "quota" \in msg THEN "RATE_LIMIT"
  ELSE "UNKNOWN"

categorize(msg) ==
  IF "disabled" \in msg THEN "CAPTIONS_DISABLED"
  ELSE IF "not available" \in msg \/ "no transcript" \in msg THEN "NO_CAPTIONS"
  ELSE IF "private" \in msg \/ "unavailable" \in msg \/ "age" \in msg THEN "PRIVATE_OR_RESTRICTED"
  ELSE IF "expandablemetadata" \in msg \/ "structure" \in msg THEN "STRUCTURE_UNSUPPORTED"
  ELSE IF "quota" \in msg THEN "RATE_LIMIT"
  ELSE IF "timeout" \in msg \/ "timed out" \in msg \/ "network" \in msg
          \/ "econn" \in msg \/ "socket" \in msg THEN "TRANSIENT_ERROR"
  ELSE "UNKNOWN"

\* Texts are sequences of one-character strings.
Filler(n) == [k \in 1 .. n |-> "x"]
SegTexts == { <<>>, <<" ">>, <<"x", " ", " ", "x">>, Filler(4), Filler(5) }
SegmentLists == UNION { [1 .. n -> SegTexts] : n \in 0 .. MaxSegments }

\* transcriptInfo: either without transcript.content.body, or with the
\* segments found under it (the text of each segment).
TranscriptInfos ==
  { [valid |-> FALSE, segments |-> <<>>] }
    \cup { [valid |-> TRUE, segments |-> segs] : segs \in SegmentLists }

\* .filter(Boolean).join(' ')
RECURSIVE joinTexts(_)
joinTexts(segs) ==
  IF segs = <<>> THEN <<>>
  ELSE LET rest == joinTexts(Tail(segs))
       IN IF Head(segs) = <<>> THEN rest
          ELSE IF \A k \in 1 .. Len(Tail(segs)) : Tail(segs)[k] = <<>> THEN Head(segs)
          ELSE Head(segs) \o <<" ">> \o rest

\* .replace(/\s+/g, ' ')
RECURSIVE collapseSpaces(_)
collapseSpaces(text) ==
  IF Len(text) <= 1 THEN text
  ELSE IF text[1] = " " /\ text[2] = " " THEN collapseSpaces(Tail(text))
  ELSE <<text[1]>> \o collapseSpaces(Tail(text))

\* .trim()
RECURSIVE trim(_)
trim(text) ==
  IF text = <<>> THEN text
  ELSE IF text[1] = " " THEN trim(Tail(text))
  ELSE IF text[Len(text)] = " " THEN trim(SubSeq(text, 1, Len(text) - 1))
  ELSE text

fullTextOf(segments) == trim(collapseSpaces(joinTexts(segments)))

\* A threshold under which a text of exactly minTranscriptLength characters
\* passes.
tooShortBelow(fullText) == Len(fullText) < minTranscriptLength

tooShort(fullText) == Len(fullText) <= minTranscriptLength

failure(category) == [success |-> FALSE, category |-> category, transcript |-> <<>>]

extractText(transcriptInfo) ==
  IF ~transcriptInfo.valid THEN failure("STRUCTURE_UNSUPPORTED")
  ELSE IF Len(transcriptInfo.segments) = 0 THEN failure("NO_CAPTIONS")
  ELSE IF tooShort(fullTextOf(transcriptInfo.segments)) THEN failure("TOO_SHORT")
  ELSE [success |-> TRUE, category |-> "Success",
        transcript |-> fullTextOf(transcriptInfo.segments)]

NoInfo == [valid |-> FALSE, segments |-> <<"none">>]
NoResult == failure("none")

\* captions: what info.captions held; attempt: the loop counter; log: the
\* classification of every info.getTranscript() attempt made; info: what the
\* last attempt returned (NoInfo if it threw).
\* errors: the message of every attempt that threw; details: the details
\* of the failure returned (the keywords of an error message, or a marker).
NoDetails == {"none"}
ExhaustedDetails == {"Exhausted transcript attempts"}
IdleTranscript ==
  [pc |-> "idle", captions |-> "unknown", attempt |-> 0, log |-> <<>>,
   info |-> NoInfo, result |-> NoResult, errors |-> <<>>, details |-> NoDetails]

InitTranscript == transcriptCall = IdleTranscript

transcriptDone(result, log, info, errors, details) ==
  transcriptCall' = [transcriptCall EXCEPT !.pc = "done", !.result = result,
                                           !.log = log, !.info = info,
                                           !.errors = errors, !.details = details]

getVideoTranscript ==
  /\ transcriptCall.pc = "idle"
  /\ transcriptCall' = [IdleTranscript EXCEPT !.pc = "getInfo"]
  /\ transcriptFrame

\* initInnertube() (or any statement outside the inner try blocks) throws:
\* the outer catch returns the classified failure.
initInnertubeThrows(msg) ==
  /\ transcriptCall.pc = "getInfo"
  /\ transcriptCall.captions = "unknown"
  /\ transcriptDone(failure(categorize(msg)), <<>>, NoInfo, <<msg>>, msg)
  /\ transcriptFrame

getInfoThrows(msg) ==
  /\ transcriptCall.pc = "getInfo"
  /\ transcriptDone(failure(categorize(msg)), <<>>, NoInfo, <<>>, msg)
  /\ transcriptFrame

CaptionListings == {"noCaptions", "noCaptionTracks", "emptyCaptionTracks", "tracks"}

getInfoReturns(captions) ==
  /\ transcriptCall.pc = "getInfo"
  /\ IF captions # "tracks"
     THEN transcriptCall' = [transcriptCall EXCEPT !.pc = "done", !.captions = captions,
                                                   !.result = failure("NO_CAPTIONS"),
                                                   !.details = {captions}]
     ELSE transcriptCall' = [transcriptCall EXCEPT !.pc = "getTranscript",
                                                   !.captions = captions, !.attempt = 1]
  /\ transcriptFrame

\* The step of the loop after an attempt that neither returned nor threw.
nextAttempt(log, info) ==
  IF transcriptCall.attempt = maxAttempts
  THEN transcriptDone(failure("UNKNOWN"), log, info, transcriptCall.errors, ExhaustedDetails)
  ELSE transcriptCall' = [transcriptCall EXCEPT !.attempt = @ + 1, !.log = log, !.info = info]

getTranscriptReturns(transcriptInfo) ==
  /\ transcriptCall.pc = "getTranscript"
  /\ LET extracted == extractText(transcriptInfo)
         log == Append(transcriptCall.log, extracted.category)
     IN IF extracted.success
           \/ extracted.category \in {"STRUCTURE_UNSUPPORTED", "TOO_SHORT", "NO_CAPTIONS"}
        THEN transcriptDone(extracted, log, transcriptInfo, transcriptCall.errors,
                            {extracted.category})
        ELSE nextAttempt(log, transcriptInfo)
  /\ transcriptFrame

\* An attempt that fails on every classification but the last one allowed.
returnsAfterThrowAtCeiling(category, attempt) == attempt = maxAttempts

\* A catch block that goes on to the backoff after the last attempt too.
returnsAfterThrowUnlessTransient(category, attempt) == category # "TRANSIENT_ERROR"

returnsAfterThrow(category, attempt) ==
  category # "TRANSIENT_ERROR" \/ attempt = maxAttempts

getTranscriptThrows(msg) ==
  /\ transcriptCall.pc = "getTranscript"
  /\ LET category == categorize(msg)
         log == Append(transcriptCall.log, category)
     IN IF returnsAfterThrow(category, transcriptCall.attempt)
        THEN transcriptDone(failure(category), log, NoInfo,
                            Append(transcriptCall.errors, msg), msg)
        ELSE transcriptCall' = [transcriptCall EXCEPT !.pc = "backoff", !.log = log,
                                                      !.info = NoInfo,
                                                      !.errors = Append(@, msg)]
  /\ transcriptFrame

\* The timer of 300 * attempt ms fires: attempt++, and the loop ends with
\* the fallback result once attempt exceeds maxAttempts.
backoffDone ==
  /\ transcriptCall.pc = "backoff"
  /\ IF transcriptCall.attempt >= maxAttempts
     THEN transcriptDone(failure("UNKNOWN"), transcriptCall.log, transcriptCall.info,
                         transcriptCall.errors, ExhaustedDetails)
     ELSE transcriptCall' = [transcriptCall EXCEPT !.pc = "getTranscript", !.attempt = @ + 1]
  /\ transcriptFrame

\* The caller has taken the result.
transcriptReturn ==
  /\ transcriptCall.pc = "done"
  /\ transcriptCall' = IdleTranscript
  /\ transcriptFrame

NextTranscript ==
  \/ getVideoTranscript
  \/ \E msg \in Messages : initInnertubeThrows(msg)
  \/ \E msg \in Messages : getInfoThrows(msg)
  \/ \E captions \in CaptionListings : getInfoReturns(captions)
  \/ \E transcriptInfo \in TranscriptInfos : getTranscriptReturns(transcriptInfo)
  \/ \E msg \in Messages : getTranscriptThrows(msg)
  \/ backoffDone
  \/ transcriptReturn

(***************************************************************************)
(* YouTubeService.getChannelTranscripts: the selection of the videos to    *)
(* process (src/src/services/youtube.js)                                   *)
(***************************************************************************)
\* contentDetails.duration values, as sequences of one-character strings.
PT30S == <<"P", "T", "3", "0", "S">>
PT1M == <<"P", "T", "1", "M">>
P1D == <<"P", "1", "D">>
NotADuration == <<"N", "/", "A">>
NoDuration == <<>>
\* The videos.list response has no item for the video.
NoMeta == <<"none">>
Metas == {NoMeta, NoDuration, PT30S, PT1M, P1D, NotADuration}

Digits == {"0", "1", "2", "3", "4", "5", "6", "7", "8", "9"}
digitValue(ch) ==
  CASE ch = "0" -> 0 [] ch = "1" -> 1 [] ch = "2" -> 2 [] ch = "3" -> 3 [] ch = "4" -> 4
    [] ch = "5" -> 5 [] ch = "6" -> 6 [] ch = "7" -> 7 [] ch = "8" -> 8 [] ch = "9" -> 9

\* The length of the run of digits of text that starts at position i (\d+).
RECURSIVE digitsLen(_, _)
digitsLen(text, i) ==
  IF i <= Len(text) /\ text[i] \in Digits THEN 1 + digitsLen(text, i + 1) ELSE 0

\* parseInt of a run of digits.
RECURSIVE parseInt(_)
parseInt(digits) ==
  IF digits = <<>> THEN 0
  ELSE 10 * parseInt(SubSeq(digits, 1, Len(digits) - 1)) + digitValue(digits[Len(digits)])

\* One optional group (?:(\d+)X)? of the pattern, tried at position i.
durationGroup(text, i, letter) ==
  LET n == digitsLen(text, i)
  IN IF n > 0 /\ i + n <= Len(text) /\ text[i + n] = letter
     THEN [value |-> parseInt(SubSeq(text, i, i + n - 1)), next |-> i + n + 1]
     ELSE [value |-> 0, next |-> i]

\* Where /PT.../ matches first (0: no match).
matchStart(text) ==
  LET starts == {i \in 1 .. Len(text) - 1 : text[i] = "P" /\ text[i + 1] = "T"}
  IN IF starts = {} THEN 0 ELSE CHOOSE i \in starts : \A j \in starts : i <= j

parseDuration(duration) ==
  LET start == matchStart(duration)
  IN IF start = 0 THEN 0
     ELSE LET hours == durationGroup(duration, start + 2, "H")
              minutes == durationGroup(duration, hours.next, "M")
              seconds == durationGroup(duration, minutes.next, "S")
          IN hours.value * 3600 + minutes.value * 60 + seconds.value

\* The predicate of the shorts filter: TRUE keeps the video.
keepsVideo(videoMeta) ==
  IF videoMeta = NoMeta \/ videoMeta = NoDuration THEN TRUE
  ELSE ~(parseDuration(videoMeta) < 60)

RECURSIVE filterSeq(_, _)
filterSeq(seq, keep) ==
  IF seq = <<>> THEN <<>>
  ELSE IF Head(seq) \in keep THEN <<Head(seq)>> \o filterSeq(Tail(seq), keep)
  ELSE filterSeq(Tail(seq), keep)

slice0(seq, n) == SubSeq(seq, 1, IF n < Len(seq) THEN n ELSE Len(seq))

\* videos.filter(v => !skipExistingSet.has(v.videoId))
filteredVideos(videos, skipExisting) ==
  filterSeq(videos, {v \in {videos[k] : k \in 1 .. Len(videos)} : v \notin skipExisting})

\* limit = 0 stands for no limit (null and 0 are both falsy).
videosToCheck(filtered, limit, excludeShorts) ==
  IF excludeShorts /\ limit # 0 THEN slice0(filtered, (3 * limit + 1) \div 2)
  ELSE IF limit # 0 /\ ~excludeShorts THEN slice0(filtered, limit)
  ELSE filtered

shortsFiltered(toCheck, metadata, excludeShorts) ==
  IF excludeShorts
  THEN filterSeq(toCheck, {v \in {toCheck[k] : k \in 1 .. Len(toCheck)} : keepsVideo(metadata[v])})
  ELSE toCheck

selectVideos(videos, metadata, skipExisting, limit, excludeShorts) ==
  LET toCheck == videosToCheck(filteredVideos(videos, skipExisting), limit, excludeShorts)
      kept == shortsFiltered(toCheck, metadata, excludeShorts)
  IN IF limit # 0 THEN slice0(kept, limit) ELSE kept

\* The message thrown when no video is left; skipExisting.length is the size
\* of the list passed in (getIndexedVideos holds no duplicates).
noVideosMessage(videos, skipExisting, toCheck, final, excludeShorts) ==
  LET totalVideos == Len(videos)
      skippedCount == Cardinality(skipExisting)
      remainingAfterSkip == totalVideos - skippedCount
      shortsFilteredCount == IF excludeShorts THEN Len(toCheck) - Len(final) ELSE 0
  IN IF totalVideos = 0 THEN "This channel has no videos"
     ELSE IF skippedCount > 0 /\ remainingAfterSkip = 0 THEN "All videos are already indexed"
     ELSE IF excludeShorts /\ shortsFilteredCount > 0
          THEN IF skippedCount > 0 THEN "After skipping indexed videos and filtering out Shorts"
               ELSE "All videos are YouTube Shorts"
     ELSE IF skippedCount > 0 THEN "none have available transcripts"
     ELSE "No videos to process"

\* A channel's uploads are the videos 1 .. n, newest first; 0 is the id of a
\* video that was indexed and has left the uploads list since.
ChannelVideos == { [k \in 1 .. n |-> k] : n \in 0 .. MaxChannelVideos }
SkipLists == SUBSET (0 .. MaxChannelVideos)
Limits == 0 .. MaxLimit

NoSelection ==
  [called |-> FALSE, videos |-> <<>>, metadata |-> <<>>, skipExisting |-> {}, limit |-> 0,
   excludeShorts |-> FALSE, videosToCheck |-> <<>>, afterShortsFilter |-> <<>>,
   finalVideosToProcess |-> <<>>, error |-> "none"]

InitSelection == selection = NoSelection

getChannelTranscripts(videos, metadata, skipExisting, limit, excludeShorts) ==
  /\ ~selection.called
  /\ LET toCheck == videosToCheck(filteredVideos(videos, skipExisting), limit, excludeShorts)
         final == selectVideos(videos, metadata, skipExisting, limit, excludeShorts)
     IN selection' =
          [called |-> TRUE, videos |-> videos, metadata |-> metadata,
           skipExisting |-> skipExisting, limit |-> limit, excludeShorts |-> excludeShorts,
           videosToCheck |-> toCheck,
           afterShortsFilter |-> shortsFiltered(toCheck, metadata, excludeShorts),
           finalVideosToProcess |-> final,
           error |-> IF Len(final) = 0
                     THEN noVideosMessage(videos, skipExisting, toCheck, final, excludeShorts)
                     ELSE "none"]
  /\ selectionFrame

\* The call has thrown its error or gone on to fetch the transcripts.
selectionReturn ==
  /\ selection.called
  /\ selection' = NoSelection
  /\ selectionFrame

NextSelection ==
  \/ /\ ~selection.called
     /\ \E videos \in ChannelVideos :
          \E metadata \in [1 .. Len(videos) -> Metas], skipExisting \in SkipLists,
             limit \in Limits, excludeShorts \in BOOLEAN :
            getChannelTranscripts(videos, metadata, skipExisting, limit, excludeShorts)
  \/ selectionReturn

(***************************************************************************)
(* YouTubeRateLimiter.checkQuotaReset / resetQuota against the wall clock. *)
(* Times are minutes since a UTC midnight; the clock advances by the hour. *)
(***************************************************************************)
pacificOffset == 420

\* Date.getTimezoneOffset() of the process: UTC minus local time, in minutes
\* (Tokyo, UTC, New York, Los Angeles in summer and in winter, Honolulu).
UtcOffsets == {0 - 540, 0, 300, 420, 480, 600}

NoDate == 0 - 1

\* resetQuota's date arithmetic: tomorrow's local midnight, moved by
\* pacificOffset - utcOffset minutes.
nextResetDate(now, utcOffset) ==
  LET localDay == (now - utcOffset) \div 1440
      tomorrowMidnight == (localDay + 1) * 1440 + utcOffset
  IN tomorrowMidnight + (pacificOffset - utcOffset)

InitClock ==
  \E utcOffset \in UtcOffsets :
    clock = [now |-> 1440, utcOffset |-> utcOffset, quotaResetDate |-> NoDate,
             used |-> 0, resets |-> 0]

\* One hour passes.
clockTick ==
  /\ clock.now < 1440 + MaxHours * 60
  /\ clock' = [clock EXCEPT !.now = @ + 60]
  /\ clockFrame

\* The poll of checkQuotaReset (at start and every minute after).
pollQuotaReset ==
  /\ clock' = IF clock.quotaResetDate = NoDate \/ clock.now >= clock.quotaResetDate
              THEN [clock EXCEPT !.used = 0,
                                 !.quotaResetDate = nextResetDate(clock.now, clock.utcOffset),
                                 !.resets = IF @ < 2 THEN @ + 1 ELSE @]
              ELSE clock
  /\ clockFrame

\* A successful call is debited (cost 1).
clockDebit ==
  /\ clock.quotaResetDate # NoDate
  /\ clock.used < MaxDebits
  /\ clock' = [clock EXCEPT !.used = @ + 1]
  /\ clockFrame

NextClock ==
  \/ clockTick
  \/ pollQuotaReset
  \/ clockDebit

(***************************************************************************)
(* YouTubeRateLimiter.updateQuotaUsage: the threshold events               *)
(***************************************************************************)
quotaWarningPercent == 80
quotaCriticalPercent == 95

\* The events one updateQuotaUsage emits once quotaUsed has the value used.
\* getQuotaPercentUsed() >= threshold * 100 is compared without fractions.
eventsEmitted(used, limit) ==
  (IF used * 100 >= quotaCriticalPercent * limit THEN {"quotaCritical"}
   ELSE IF used * 100 >= quotaWarningPercent * limit THEN {"quotaWarning"}
   ELSE {})
    \cup (IF limit - used <= 0 THEN {"quotaExhausted"} ELSE {})

QuotaEvents == {"quotaWarning", "quotaCritical", "quotaExhausted"}

\* The usage a process starts with (loaded from the quota file).
LoadedUsage ==
  LET warningAt == (quotaWarningPercent * defaultQuotaLimit) \div 100
      criticalAt == (quotaCriticalPercent * defaultQuotaLimit) \div 100
  IN {0, warningAt - getQuotaCost("search.list"), warningAt - 1,
         criticalAt - getQuotaCost("search.list"), criticalAt - 1, defaultQuotaLimit - 1}

InitMeter ==
  \E used \in LoadedUsage :
    meter = [used |-> used, limit |-> defaultQuotaLimit, debits |-> 0,
             emitted |-> [e \in QuotaEvents |-> 0]]

\* updateQuotaUsage(method) after a successful call; emitted counts the
\* events since the last reset (up to 2).
meterDebit(method) ==
  /\ meter.debits < MaxDebits
  /\ LET used == meter.used + getQuotaCost(method)
     IN meter' = [meter EXCEPT
          !.used = used,
          !.debits = @ + 1,
          !.emitted = [e \in QuotaEvents |->
                         IF e \in eventsEmitted(used, meter.limit) /\ @[e] < 2
                         THEN @[e] + 1 ELSE @[e]]]
  /\ meterFrame

\* resetQuota()
meterReset ==
  /\ meter.debits > 0
  /\ meter' = [meter EXCEPT !.used = 0, !.debits = 0, !.emitted = [e \in QuotaEvents |-> 0]]
  /\ meterFrame

NextMeter ==
  \/ \E method \in Methods : meterDebit(method)
  \/ meterReset

(***************************************************************************)
(* EmbeddingService (src/src/services/channelManager.js 204-271)           *)
(***************************************************************************)
TranscriptTexts == UNION { [1 .. n -> {"a", "b"}] : n \in 0 .. MaxTranscriptLen }
EmbedVideos == { [videoId |-> AllVideos[k], title |-> <<"t", ToString(k)>>] : k \in 1 .. NumVideos }

\* textSplitter.splitText: windows of chunkSize characters, each starting
\* chunkOverlap characters before the end of the one before; no window for
\* an empty text.
splitText(text) ==
  LET step == chunkSize - chunkOverlap
      n == IF Len(text) = 0 THEN 0
           ELSE IF Len(text) <= chunkSize THEN 1
           ELSE 1 + (Len(text) - chunkSize + step - 1) \div step
      last(k) == IF (k - 1) * step + chunkSize < Len(text)
                 THEN (k - 1) * step + chunkSize ELSE Len(text)
  IN [k \in 1 .. n |-> [from |-> (k - 1) * step + 1,
                        pageContent |-> SubSeq(text, (k - 1) * step + 1, last(k))]]

\* textSplitter.createDocuments([transcript], [metadata]): one document per
\* piece, carrying the caller's metadata and the piece's location.
createDocuments(transcript, metadata) ==
  LET pieces == splitText(transcript)
  IN [k \in 1 .. Len(pieces) |->
        [pageContent |-> pieces[k].pageContent,
         metadata |-> [videoId |-> metadata.videoId, videoTitle |-> metadata.videoTitle,
                       loc |-> pieces[k].from]]]

\* chunks.map with a one-based chunkIndex.
splitTranscriptOneBased(transcript, metadata) ==
  LET chunks == createDocuments(transcript, metadata)
  IN [k \in 1 .. Len(chunks) |->
        [content |-> chunks[k].pageContent,
         metadata |-> [videoId |-> chunks[k].metadata.videoId,
                       videoTitle |-> chunks[k].metadata.videoTitle,
                       loc |-> chunks[k].metadata.loc,
                       chunkIndex |-> k, totalChunks |-> Len(chunks)]]]

\* chunks.map((chunk, index) => ({content, metadata: {...chunk.metadata,
\* chunkIndex: index, totalChunks: chunks.length}})); position k of the
\* sequence is index k - 1.
splitTranscript(transcript, metadata) ==
  LET chunks == createDocuments(transcript, metadata)
  IN [k \in 1 .. Len(chunks) |->
        [content |-> chunks[k].pageContent,
         metadata |-> [videoId |-> chunks[k].metadata.videoId,
                       videoTitle |-> chunks[k].metadata.videoTitle,
                       loc |-> chunks[k].metadata.loc,
                       chunkIndex |-> k - 1, totalChunks |-> Len(chunks)]]]

\* The metadata processVideo passes to splitTranscript.
videoMetadata(video) == [videoId |-> video.videoId, videoTitle |-> video.title]

NoVideo == [videoId |-> <<>>, title |-> <<>>]
IdleEmbed ==
  [pc |-> "idle", video |-> NoVideo, transcript |-> <<>>, chunks |-> <<>>,
   requested |-> <<>>, processedChunks |-> <<>>, result |-> <<>>]

InitEmbed == embed = IdleEmbed

\* processVideo(video) up to the loop: the transcript is split.
processVideoCalled(video, transcript) ==
  /\ embed.pc = "idle"
  /\ embed' = [IdleEmbed EXCEPT !.pc = "loop", !.video = video, !.transcript = transcript,
                                !.chunks = splitTranscript(transcript, videoMetadata(video))]
  /\ embedFrame

\* for (const chunk of chunks): the next chunk's createEmbedding(chunk.content)
\* is awaited; requested lists the chunkIndex of every request made.
createEmbeddingCalled ==
  /\ embed.pc = "loop"
  /\ Len(embed.processedChunks) < Len(embed.chunks)
  /\ embed' = [embed EXCEPT !.pc = "awaitEmbedding",
         !.requested = Append(@, embed.chunks[Len(embed.processedChunks) + 1].metadata.chunkIndex)]
  /\ embedFrame

\* createEmbedding returns: processedChunks.push({id, vector, metadata}).
createEmbeddingReturns ==
  /\ embed.pc = "awaitEmbedding"
  /\ LET chunk == embed.chunks[Len(embed.processedChunks) + 1]
     IN embed' = [embed EXCEPT !.pc = "loop",
          !.processedChunks = Append(@,
             [id |-> chunkId(embed.video.videoId, chunk.metadata.chunkIndex),
              metadata |-> chunk.metadata, content |-> chunk.content])]
  /\ embedFrame

\* An embedding error that is swallowed: the loop goes on to return the
\* records made so far.
createEmbeddingSkips ==
  /\ embed.pc = "awaitEmbedding"
  /\ embed' = [embed EXCEPT !.pc = "returned", !.result = embed.processedChunks]
  /\ embedFrame

\* createEmbedding logs and rethrows; processVideo has no catch, so the call
\* rejects and nothing is returned.
createEmbeddingThrows ==
  /\ embed.pc = "awaitEmbedding"
  /\ embed' = [embed EXCEPT !.pc = "thrown", !.result = <<>>]
  /\ embedFrame

\* return processedChunks
processVideoReturns ==
  /\ embed.pc = "loop"
  /\ Len(embed.processedChunks) = Len(embed.chunks)
  /\ embed' = [embed EXCEPT !.pc = "returned", !.result = embed.processedChunks]
  /\ embedFrame

\* The caller goes on to the next video.
embedNext ==
  /\ embed.pc \in {"returned", "thrown"}
  /\ embed' = IdleEmbed
  /\ embedFrame

NextEmbed ==
  \/ embed.pc = "idle" /\ \E video \in EmbedVideos, transcript \in TranscriptTexts :
       processVideoCalled(video, transcript)
  \/ createEmbeddingCalled
  \/ createEmbeddingReturns
  \/ createEmbeddingThrows
  \/ processVideoReturns
  \/ embedNext

(***************************************************************************)
(* YouTubeService catalog methods (src/src/services/youtube.js 20-104,     *)
(* 199-221).  The service calls this.rateLimiter.checkQuota(method, cost)  *)
(* before each request of resolveChannelId, getChannelInfo and             *)
(* getChannelVideos; YouTubeRateLimiter defines no checkQuota, so the call *)
(* throws a TypeError and the request after it is not made.                *)
(***************************************************************************)
canonicalLength == 24
metadataBatchSize == 50

CanonicalId == <<"U", "C">> \o [k \in 1 .. canonicalLength - 2 |-> "x"]
Identifiers ==
  { CanonicalId, <<"@">> \o CanonicalId, Tail(CanonicalId), <<"U", "C">>,
    <<"@", "a">>, <<"a">>, <<"@">>, <<"@", "@", "a">>, <<>> }

\* identifier.startsWith('UC') && identifier.length === 24
isCanonical(identifier) ==
  startsWith(identifier, <<"U", "C">>) /\ Len(identifier) = canonicalLength

\* identifier.startsWith('@') ? identifier.substring(1) : identifier
cleanIdentifier(identifier) ==
  IF startsWith(identifier, <<"@">>) THEN Tail(identifier) ELSE identifier

\* A resolveChannelId whose fallback is the identifier as given.
resolveChannelIdRaw(identifier) == identifier

\* resolveChannelId: the canonical shape is returned at once; otherwise the
\* try block throws at checkQuota('search.list', 1), the catch logs, and the
\* cleaned identifier is returned.
resolveChannelId(identifier) ==
  IF isCanonical(identifier) THEN identifier ELSE cleanIdentifier(identifier)

CatalogOps == {"resolveChannelId", "getChannelInfo", "getChannelVideos"}

IdleCatalog ==
  [pc |-> "idle", op |-> "none", identifier |-> <<>>, resolvedId |-> <<>>,
   pages |-> 0, ids |-> 0, batch |-> 0, requests |-> <<>>, requestFailed |-> FALSE,
   value |-> <<>>, error |-> "none"]

InitCatalog == catalogCall = IdleCatalog

\* resolveChannelId(identifier), getChannelInfo(channelId) or
\* getChannelVideos(channelId) is called for a channel whose uploads playlist
\* has the given number of pages; the last two start by resolving the id.
catalogCalled(op, identifier, pages) ==
  /\ catalogCall.pc = "idle"
  /\ catalogCall' = [IdleCatalog EXCEPT !.pc = "resolve", !.op = op,
                                        !.identifier = identifier, !.pages = pages]
  /\ catalogFrame

resolveReturns ==
  /\ catalogCall.pc = "resolve"
  /\ LET id == resolveChannelId(catalogCall.identifier)
     IN catalogCall' =
          IF catalogCall.op = "resolveChannelId"
          THEN [catalogCall EXCEPT !.pc = "returned", !.resolvedId = id, !.value = id]
          ELSE [catalogCall EXCEPT !.pc = "channelsList", !.resolvedId = id]
  /\ catalogFrame

\* getChannelInfo: await this.rateLimiter.checkQuota('channels.list', 1)
\* throws; getChannelInfo has no catch, getChannelVideos logs and rethrows.
channelsListThrows ==
  /\ catalogCall.pc = "channelsList"
  /\ catalogCall' = [catalogCall EXCEPT !.pc = "thrown", !.error = "TypeError"]
  /\ catalogFrame

\* getVideoMetadata(videoIds) with ids video ids.
getVideoMetadata(ids) ==
  /\ catalogCall.pc = "idle"
  /\ catalogCall' = [IdleCatalog EXCEPT !.pc = "batch", !.op = "getVideoMetadata", !.ids = ids]
  /\ catalogFrame

\* for (i = 0; i < videoIds.length; i += 50): axios.get(url) returns.
batchReturns ==
  /\ catalogCall.pc = "batch"
  /\ catalogCall.batch * metadataBatchSize < catalogCall.ids
  /\ catalogCall' = [catalogCall EXCEPT !.batch = @ + 1, !.requests = Append(@, "videos.list")]
  /\ catalogFrame

\* axios.get(url) rejects.
batchFails ==
  /\ catalogCall.pc = "batch"
  /\ catalogCall.batch * metadataBatchSize < catalogCall.ids
  /\ catalogCall' = [catalogCall EXCEPT !.pc = "thrown", !.error = "network",
                                        !.requestFailed = TRUE,
                                        !.requests = Append(@, "videos.list")]
  /\ catalogFrame

\* return chunks.reduce(...)
metadataReturns ==
  /\ catalogCall.pc = "batch"
  /\ catalogCall.batch * metadataBatchSize >= catalogCall.ids
  /\ catalogCall' = [catalogCall EXCEPT !.pc = "returned"]
  /\ catalogFrame

catalogReturn ==
  /\ catalogCall.pc \in {"returned", "thrown"}
  /\ catalogCall' = IdleCatalog
  /\ catalogFrame

MetadataCounts ==
  {0, 1} \cup UNION { {b * metadataBatchSize, b * metadataBatchSize + 1} : b \in 1 .. MaxMetadataBatches }

NextCatalog ==
  \/ catalogCall.pc = "idle" /\ \E op \in CatalogOps, identifier \in Identifiers, pages \in 1 .. MaxPages :
       catalogCalled(op, identifier, pages)
  \/ resolveReturns
  \/ channelsListThrows
  \/ \E ids \in MetadataCounts : getVideoMetadata(ids)
  \/ batchReturns
  \/ batchFails
  \/ metadataReturns
  \/ catalogReturn

(***************************************************************************)
(* YouTubeService.getChannelTranscripts: the per-video loop                *)
(* (src/src/services/youtube.js 316-355)                                   *)
(***************************************************************************)
\* What getVideoTranscript answers for a video: success or a category.
LoopResults == {"Success", "NO_CAPTIONS", categorize({"quota"})}

\* attempted: the answer for each video tried so far, in order.
IdleLoop ==
  [pc |-> "idle", videos |-> 0, attempted |-> <<>>, transcripts |-> <<>>, failed |-> <<>>]

InitLoop == transcriptLoop = IdleLoop

\* The loop is entered with finalVideosToProcess of n videos (n > 0: an
\* empty selection throws before the loop).
loopEntered(n) ==
  /\ transcriptLoop.pc = "idle"
  /\ transcriptLoop' = [IdleLoop EXCEPT !.pc = "fetch", !.videos = n]
  /\ loopFrame

\* await this.getVideoTranscript(video.videoId) answers for the next video:
\* the video goes to transcripts or to failed, then the 100 ms delay.
transcriptResult(result) ==
  /\ transcriptLoop.pc = "fetch"
  /\ LET k == Len(transcriptLoop.attempted) + 1
     IN transcriptLoop' = [transcriptLoop EXCEPT
          !.pc = "delay",
          !.attempted = Append(@, result),
          !.transcripts = IF result = "Success" THEN Append(@, k) ELSE @,
          !.failed = IF result = "Success" THEN @ ELSE Append(@, [video |-> k, reason |-> result])]
  /\ loopFrame

\* The delay is over: the next video, or the return after the last one.
loopDelayDone ==
  /\ transcriptLoop.pc = "delay"
  /\ transcriptLoop' = [transcriptLoop EXCEPT !.pc =
       IF Len(transcriptLoop.attempted) < transcriptLoop.videos THEN "fetch" ELSE "returned"]
  /\ loopFrame

loopReturn ==
  /\ transcriptLoop.pc = "returned"
  /\ transcriptLoop' = IdleLoop
  /\ loopFrame

NextLoop ==
  \/ \E n \in 1 .. MaxChannelVideos : loopEntered(n)
  \/ \E result \in LoopResults : transcriptResult(result)
  \/ loopDelayDone
  \/ loopReturn

(***************************************************************************)
(* YouTubeService.parseDuration as a call (src/src/services/youtube.js     *)
(* 358-368)                                                                *)
(***************************************************************************)
NullDuration == <<"null">>

RECURSIVE digitsOf(_)
digitsOf(n) ==
  IF n < 10 THEN <<CHOOSE ch \in Digits : digitValue(ch) = n>>
  ELSE digitsOf(n \div 10) \o digitsOf(n % 10)

\* A field of a duration: absent, or a number.
Absent == 0 - 1
FieldValues == {Absent, 0, 1, 30, 45}
field(n, letter) == IF n = Absent THEN <<>> ELSE digitsOf(n) \o <<letter>>
fieldSeconds(n, unit) == IF n = Absent THEN 0 ELSE n * unit

\* The durations PT[nH][nM][nS] with the seconds each stands for, and the
\* invalid inputs.
DurationInputs ==
  { [text |-> <<"P", "T">> \o field(h, "H") \o field(m, "M") \o field(sec, "S"),
     seconds |-> fieldSeconds(h, 3600) + fieldSeconds(m, 60) + fieldSeconds(sec, 1)] :
      h \in FieldValues, m \in FieldValues, sec \in FieldValues }
    \cup { [text |-> t, seconds |-> 0] :
             t \in {NullDuration, NoDuration, NotADuration, P1D, <<"i", "n", "v", "a", "l", "i", "d">>} }

IdleDuration == [pc |-> "idle", text |-> <<>>, seconds |-> 0, threw |-> FALSE, value |-> 0]

InitDuration == durationCall = IdleDuration

\* parseDuration(duration): duration.match(...) throws a TypeError when
\* duration is null.
parseDurationCalled(input) ==
  /\ durationCall.pc = "idle"
  /\ durationCall' =
       IF input.text = NullDuration
       THEN [pc |-> "done", text |-> input.text, seconds |-> input.seconds,
             threw |-> TRUE, value |-> 0]
       ELSE [pc |-> "done", text |-> input.text, seconds |-> input.seconds,
             threw |-> FALSE, value |-> parseDuration(input.text)]
  /\ durationFrame

durationReturn ==
  /\ durationCall.pc = "done"
  /\ durationCall' = IdleDuration
  /\ durationFrame

NextDuration ==
  \/ \E input \in DurationInputs : parseDurationCalled(input)
  \/ durationReturn

(***************************************************************************)
(* getVideoTranscript.categorize over every combination of keywords        *)
(* (src/src/services/youtube.js 106-116)                                   *)
(***************************************************************************)
Keywords ==
  {"disabled", "not available", "no transcript", "private", "unavailable", "age",
   "expandablemetadata", "structure", "quota", "timeout", "timed out", "network",
   "econn", "socket"}

NoMessage == {"none"}

Unclassified == [msg |-> NoMessage, category |-> "none"]

InitClassified == classified = Unclassified

\* categorize(msg) for a message that includes exactly the keywords of msg
\* (none: a message without keyword, an empty or a missing message).
categorizeCalled(msg) ==
  /\ classified = Unclassified
  /\ classified' = [msg |-> msg, category |-> categorize(msg)]
  /\ classifyFrame

\* The category has been used.
categorizeReturn ==
  /\ classified # Unclassified
  /\ classified' = Unclassified
  /\ classifyFrame

NextClassify ==
  \/ classified = Unclassified /\ \E msg \in SUBSET Keywords : categorizeCalled(msg)
  \/ categorizeReturn

(***************************************************************************)
(* Projects and the global vectorStore (src/src/api/server.js 26-47,       *)
(* 219-224, 436-483; UpstashManager in src/unnamed/part_005)               *)
(***************************************************************************)
ProjectIds == 1 .. MaxProjects
\* currentProject === null; the store built from the configuration.
NoProject == 0 - 1

\* vectorStore names the project whose credentials the store was built with.
InitProject ==
  projectState = [projects |-> {}, currentProject |-> NoProject, vectorStore |-> NoProject,
                  run |-> [pc |-> "idle", startedWith |-> NoProject, upsertedTo |-> NoProject]]

\* initializeServices(): a new store for the current project, or the
\* default store.
initializeServices(state) == [state EXCEPT !.vectorStore = state.currentProject]

\* POST /api/projects
createProject(id) ==
  /\ id \notin projectState.projects
  /\ projectState' = initializeServices(
       [projectState EXCEPT !.projects = @ \cup {id}, !.currentProject = id])
  /\ projectFrame

\* POST /api/projects/:id/switch for an existing project (a missing one
\* throws before anything changes).
switchProject(id) ==
  /\ id \in projectState.projects
  /\ projectState' = initializeServices([projectState EXCEPT !.currentProject = id])
  /\ projectFrame

\* DELETE /api/projects/:id
deleteProject(id) ==
  /\ id \in projectState.projects
  /\ projectState' = initializeServices(
       [projectState EXCEPT !.projects = @ \ {id},
                            !.currentProject = IF @ = id THEN NoProject ELSE @])
  /\ projectFrame

\* POST /api/index-channel accepted: the background run starts.
projectRunStarts ==
  /\ projectState.run.pc = "idle"
  /\ projectState' = [projectState EXCEPT !.run =
       [pc |-> "processing", startedWith |-> projectState.vectorStore, upsertedTo |-> NoProject]]
  /\ projectFrame

\* line 224: await vectorStore.indexChannel(embeddings) reads the global.
projectRunUpserts ==
  /\ projectState.run.pc = "processing"
  /\ projectState' = [projectState EXCEPT !.run.pc = "upserted",
                                          !.run.upsertedTo = projectState.vectorStore]
  /\ projectFrame

projectRunEnds ==
  /\ projectState.run.pc = "upserted"
  /\ projectState' = [projectState EXCEPT !.run.pc = "idle"]
  /\ projectFrame

NextProject ==
  \/ \E id \in ProjectIds : createProject(id)
  \/ \E id \in ProjectIds : switchProject(id)
  \/ \E id \in ProjectIds : deleteProject(id)
  \/ projectRunStarts
  \/ projectRunUpserts
  \/ projectRunEnds

(***************************************************************************)
(* ChannelManager.addIndexedVideos called with any list of video ids       *)
(* (src/src/services/channelManager.js 181-196)                            *)
(***************************************************************************)
IdLists ==
  UNION { [1 .. n -> {catalog[k] : k \in 1 .. Len(catalog)}] : n \in 0 .. MaxIdList }

addIndexedVideosCalled(channelId, videoIds) ==
  /\ channels' = addIndexedVideos(channels, channelId, videoIds)
  /\ UNCHANGED <<indexingStatus, runs, indexingLogs, requests, vstore>>
  /\ indexFrame

NextChannels ==
  \E channelId \in ChannelInputs, videoIds \in IdLists : addIndexedVideosCalled(channelId, videoIds)

(***************************************************************************)
(* CacheManager (src/unnamed/part_007)                                     *)
(***************************************************************************)
CacheKeys == {"k1", "k2"}
CacheValues == {"a", "b"}
\* A key that is not in the map.
NotCached == "undefined"
NoTtl == 0 - 1
\* ttlMs as passed to set: negative, zero or positive.
Ttls == (0 - 1) .. MaxTtl
NoSet == [value |-> NotCached, at |-> 0, ttlMs |-> 0]
NoGet == [key |-> "none", result |-> "none"]

\* cache, ttlMap: the two maps; now: Date.now(); lastSet: for each key the
\* arguments and time of the latest set not followed by a delete; got: the
\* key and result of the get just made.
InitCache ==
  cacheState = [cache |-> [k \in CacheKeys |-> NotCached],
                ttlMap |-> [k \in CacheKeys |-> NoTtl],
                now |-> 1,
                lastSet |-> [k \in CacheKeys |-> NoSet],
                got |-> NoGet]

\* ttl && Date.now() > ttl
expired(state, key) ==
  state.ttlMap[key] # NoTtl /\ state.ttlMap[key] # 0 /\ state.now > state.ttlMap[key]

\* delete(key)
deleted(state, key) ==
  [state EXCEPT !.cache[key] = NotCached, !.ttlMap[key] = NoTtl]

\* set: ttlMap is written only when ttlMs > 0.
ttlAfterSet(state, key, ttlMs) ==
  IF ttlMs > 0 THEN state.now + ttlMs ELSE state.ttlMap[key]

cacheSet(key, value, ttlMs) ==
  /\ cacheState' = [cacheState EXCEPT
       !.cache[key] = value,
       !.ttlMap[key] = ttlAfterSet(cacheState, key, ttlMs),
       !.lastSet[key] = [value |-> value, at |-> cacheState.now, ttlMs |-> ttlMs],
       !.got = NoGet]
  /\ cacheFrame

cacheGet(key) ==
  /\ cacheState' =
       IF cacheState.cache[key] = NotCached
       THEN [cacheState EXCEPT !.got = [key |-> key, result |-> "null"]]
       ELSE IF expired(cacheState, key)
       THEN [deleted(cacheState, key) EXCEPT !.got = [key |-> key, result |-> "null"]]
       ELSE [cacheState EXCEPT !.got = [key |-> key, result |-> cacheState.cache[key]]]
  /\ cacheFrame

cacheHas(key) ==
  /\ cacheState' =
       IF cacheState.cache[key] # NotCached /\ expired(cacheState, key)
       THEN [deleted(cacheState, key) EXCEPT !.got = NoGet]
       ELSE [cacheState EXCEPT !.got = NoGet]
  /\ cacheFrame

cacheDelete(key) ==
  /\ cacheState' = [deleted(cacheState, key) EXCEPT !.lastSet[key] = NoSet, !.got = NoGet]
  /\ cacheFrame

\* cleanup(): every key whose expiry has passed is deleted.
cleanup ==
  /\ cacheState' = [cacheState EXCEPT
       !.cache = [k \in CacheKeys |->
                    IF cacheState.ttlMap[k] # NoTtl /\ cacheState.now > cacheState.ttlMap[k]
                    THEN NotCached ELSE @[k]],
       !.ttlMap = [k \in CacheKeys |->
                    IF cacheState.ttlMap[k] # NoTtl /\ cacheState.now > cacheState.ttlMap[k]
                    THEN NoTtl ELSE @[k]],
       !.got = NoGet]
  /\ cacheFrame

cacheTick ==
  /\ cacheState.now < MaxCacheTime
  /\ cacheState' = [cacheState EXCEPT !.now = @ + 1, !.got = NoGet]
  /\ cacheFrame

NextCache ==
  \/ \E key \in CacheKeys, value \in CacheValues, ttlMs \in Ttls : cacheSet(key, value, ttlMs)
  \/ \E key \in CacheKeys : cacheGet(key)
  \/ \E key \in CacheKeys : cacheHas(key)
  \/ \E key \in CacheKeys : cacheDelete(key)
  \/ cleanup
  \/ cacheTick

(***************************************************************************)
(* Specifications                                                          *)
(***************************************************************************)
Init ==
  /\ InitQuota /\ InitIndex /\ InitStore /\ InitTranscript /\ InitSelection
  /\ InitClock /\ InitMeter /\ InitEmbed /\ InitCatalog
  /\ InitLoop /\ InitDuration /\ InitClassified /\ InitProject
  /\ InitCache

\* The other subsystems start from one fixed state in the specifications of
\* the indexing run and of the vector store.
InitUtc == Init /\ clock.utcOffset = 0 /\ meter.used = 0
InitNoQuotaFile == InitUtc /\ ~quotaFile.exists
InitAnyZone == Init /\ ~quotaFile.exists /\ meter.used = 0
InitLoadedUsage == Init /\ ~quotaFile.exists /\ clock.utcOffset = 0

SpecQuota == InitUtc /\ [][NextQuota]_vars
SpecIndex == InitNoQuotaFile /\ [][NextIndex]_vars
SpecRag == InitNoQuotaFile /\ [][NextRag]_vars
SpecRetry == InitNoQuotaFile /\ [][NextRetry]_vars

\* The event loop runs every continuation that is ready and every timer that
\* has expired, and every apiCall settles; whether it resolves or rejects is
\* up to the provider.
RetryFairness ==
  \A c \in Calls :
    /\ WF_vars(limiterStart(c))
    /\ WF_vars(limiterRetry(c))
    /\ WF_vars(retryCatch(c))
    /\ WF_vars(retryDelayDone(c))
    /\ WF_vars(apiCallSucceeds(c) \/ \E e \in ApiErrors : apiCallFails(c, e))

SpecRetryFair == SpecRetry /\ WF_vars(loadQuotaInfo) /\ WF_vars(initialize) /\ RetryFairness
SpecTranscript == InitNoQuotaFile /\ [][NextTranscript]_vars
SpecSelection == InitNoQuotaFile /\ [][NextSelection]_vars
\* The continuation of a run after each await runs once the awaited provider
\* call has settled, and every provider call settles.
runStep(r) ==
  \/ fetchFails(r)
  \/ \E o \in Outcomes : fetchReturns(r, o)
  \/ \E n \in 0 .. MaxChunks : videoDone(r, n)
  \/ delayDone(r)
  \/ upsertFails(r)
  \/ upsertReturns(r)
  \/ channelSaved(r)
  \/ finishRun(r)
SpecIndexFair == SpecIndex /\ \A r \in Runs : WF_vars(runStep(r))
SpecClock == InitAnyZone /\ [][NextClock]_vars
SpecMeter == InitLoadedUsage /\ [][NextMeter]_vars
SpecEmbed == InitNoQuotaFile /\ [][NextEmbed]_vars
SpecCatalog == InitNoQuotaFile /\ [][NextCatalog]_vars
SpecLoop == InitNoQuotaFile /\ [][NextLoop]_vars
SpecDuration == InitNoQuotaFile /\ [][NextDuration]_vars
SpecClassify == InitNoQuotaFile /\ [][NextClassify]_vars
SpecProject == InitNoQuotaFile /\ [][NextProject]_vars
SpecChannels == InitNoQuotaFile /\ [][NextChannels]_vars
SpecCache == InitNoQuotaFile /\ [][NextCache]_vars

(***************************************************************************)
(* YouTubeRateLimiter: properties                                          *)
(***************************************************************************)

\* C1: executeWithRateLimit called for a method whose cost exceeds the
\* remaining quota (quotaLimit - quotaUsed) rejects at once with the
\* insufficient-quota error: apiCall has not been invoked, the call is not
\* queued, quotaUsed and the reservoir are unchanged; and a call so rejected
\* is never touched again.
C1_InsufficientQuotaRejects ==
  [][(\A c \in Calls, m \in Methods :
        (executeWithRateLimit(c, m) /\ getQuotaCost(m) > quotaLimit - quotaUsed) =>
           /\ calls'[c].st = "rejected"
           /\ calls'[c].error = "InsufficientQuota"
           /\ calls'[c].invoked = 0
           /\ ~InLimiter(c)'
           /\ quotaUsed' = quotaUsed
           /\ reservoir' = reservoir)
     /\ (\A d \in Calls : calls[d].error = "InsufficientQuota" => calls'[d] = calls[d])]_vars

\* A call for an expensive method has been rejected for insufficient quota
\* while some quota was left.
C1_Witness ==
  \E c \in Calls :
    /\ calls[c].error = "InsufficientQuota"
    /\ getQuotaCost(calls[c].method) > 1
    /\ quotaUsed < quotaLimit

\* C2: in every reachable state, 0 <= quotaUsed <= quotaLimit.
C2_QuotaWithinLimit == 0 <= quotaUsed /\ quotaUsed <= quotaLimit

(***************************************************************************)
(* Indexing run: properties                                                *)
(***************************************************************************)

\* C3: at most one indexing run is active at any time.
C3_AtMostOneActiveRun == Cardinality({r \in Runs : ActiveRun(r)}) <= 1

\* The step of run r from the pause after video i to the next loop head, with
\* cancellation requested and videos left: k = i + 1 of n videos processed.
CancelSeenAfterSomeVideos(r) ==
  /\ delayDone(r)
  /\ indexingStatus.cancelled
  /\ runs[r].i + 1 < Len(runs[r].transcripts)

C6_LedgerPartitionsSelection ==
  \A k \in 1 .. Len(indexingLogs) :
    LET e == indexingLogs[k] IN
    /\ e.successCount + e.failedCount = e.totalVideos
    /\ \A a \in 1 .. Len(e.successVideos), b \in 1 .. Len(e.failedVideos) :
         e.successVideos[a].videoId # e.failedVideos[b].videoId
    /\ \A a \in 1 .. Len(e.successVideos) : e.successVideos[a].chunksCreated \in 1 .. MaxChunks
    /\ \A b \in 1 .. Len(e.failedVideos) :
         e.failedVideos[b].reason \in FailCategories \cup {"Embedding failed"}

(***************************************************************************)
(* RAGService.query and VectorStoreService: properties                     *)
(***************************************************************************)

\* C7: RAGService.query never raises. When the vector query returns no result
\* the answer is the fixed "couldn't find" text with no sources, no chunks
\* and debug.error null; when a step (question embedding, vector query,
\* prompt building, generation) throws, the answer is the "encountered an
\* error" text with no sources, no chunks and the error's message in
\* debug.error.
C7_QueryNeverRaises ==
  rag.pc = "done" =>
    /\ ~rag.raised
    /\ (rag.failedStep = "none" /\ Len(storeCall.returned) = 0) =>
         /\ rag.answer = "I couldn't find any relevant information"
         /\ rag.sources = <<>>
         /\ rag.chunks = <<>>
         /\ rag.debugError = "null"
    /\ rag.failedStep # "none" =>
         /\ rag.answer = "Sorry, I encountered an error"
         /\ rag.sources = <<>>
         /\ rag.chunks = <<>>
         /\ rag.debugError = thrownMessage(rag.failedStep)

\* A query has ended after the completion threw, with results at hand.
C7_Witness ==
  /\ rag.pc = "done"
  /\ rag.failedStep = "generation"
  /\ Len(storeCall.returned) > 0

\* C8: for a non-empty list of search results, sources has exactly one entry
\* per distinct videoId, in the order of the videoIds' first occurrence in
\* the results, and chunks has one entry per result, in result order.
C8_SourcesDistinctInOrder ==
  (rag.pc = "done" /\ rag.answer = "generated") =>
    LET results == storeCall.returned
        firstAt(v) == CHOOSE k \in 1 .. Len(results) :
                        results[k].videoId = v /\ \A j \in 1 .. k - 1 : results[j].videoId # v
    IN /\ Len(results) > 0
       /\ \A a, b \in 1 .. Len(rag.sources) : a # b => rag.sources[a] # rag.sources[b]
       /\ {rag.sources[a] : a \in 1 .. Len(rag.sources)} = {results[k].videoId : k \in 1 .. Len(results)}
       /\ \A a, b \in 1 .. Len(rag.sources) : a < b => firstAt(rag.sources[a]) < firstAt(rag.sources[b])
       /\ Len(rag.chunks) = Len(results)
       /\ \A k \in 1 .. Len(results) : rag.chunks[k].content = results[k].id

\* An answer generated from three results whose videos are x, y, x.
C8_Witness ==
  /\ rag.pc = "done"
  /\ rag.answer = "generated"
  /\ Len(rag.chunks) = 3
  /\ Len(rag.sources) = 2
  /\ storeCall.returned[1].videoId = <<"x">>
  /\ storeCall.returned[2].videoId = <<"y">>
  /\ storeCall.returned[3].videoId = <<"x">>

\* C9: query(vector, topK) asks the backend for topK * 3 results and returns at
\* most topK of them, in the backend's order; with a namespace configured
\* every returned id starts with "<namespace>_".
C9_QueryTopKWithinNamespace ==
  (storeCall.op = "query" /\ ~storeCall.threw) =>
    LET backend == storeCall.backend
        returned == storeCall.returned
    IN /\ storeCall.requested = storeCall.topK * 3
       /\ Len(backend) <= storeCall.topK * 3
       /\ Len(returned) <= storeCall.topK
       /\ \E f \in [1 .. Len(returned) -> 1 .. Len(backend)] :
            /\ \A a, b \in 1 .. Len(returned) : a < b => f[a] < f[b]
            /\ \A k \in 1 .. Len(returned) : returned[k] = backend[f[k]]
       /\ storeCall.ns # <<>> =>
            \A k \in 1 .. Len(returned) :
              SubSeq(returned[k].id, 1, Len(storeCall.ns) + 1) = storeCall.ns \o <<"_">>

\* A query under namespace "p" whose backend answer led with a record without
\* the prefix and which returned a record all the same.
C9_Witness ==
  /\ storeCall.op = "query"
  /\ ~storeCall.threw
  /\ storeCall.ns = <<"p">>
  /\ Len(storeCall.backend) > 0
  /\ Head(storeCall.backend).id = X0.id
  /\ Len(storeCall.returned) > 0

\* C10: upsertBatch sends (and the backend then holds) each record under
\* "<namespace>_<rawId>" when a non-empty namespace is configured and under the
\* raw id when the namespace is absent or the empty string; the other fields
\* are those of the chunk.
C10_UpsertIds ==
  storeCall.op = "upsertBatch" =>
    LET chunks == storeCall.chunks
        creds == storeCall.creds
        plain == ~creds.hasNamespace \/ creds.namespace = <<>>
        sent == UNION {{storeCall.batches[j][k] : k \in 1 .. Len(storeCall.batches[j])} :
                         j \in 1 .. Len(storeCall.batches)}
        expected(c) == [id |-> IF plain THEN c.id ELSE creds.namespace \o <<"_">> \o c.id,
                        videoId |-> c.videoId, chunk |-> c.chunk]
    IN /\ \A x \in sent : \E k \in 1 .. Len(chunks) : x = expected(chunks[k])
       /\ ~storeCall.threw => \A k \in 1 .. Len(chunks) :
            expected(chunks[k]) \in sent /\ expected(chunks[k]) \in vstore

\* An upsert of three chunks under namespace "p" and one without namespace
\* have both been stored.
C10_Witness ==
  /\ storeCall.op = "upsertBatch"
  /\ ~storeCall.threw
  /\ Len(storeCall.chunks) = 3
  /\ storeCall.creds.namespace = <<"p">>
  /\ X0 \in vstore

\* The records of a sequence of batches, in the order sent.
RECURSIVE Flatten(_)
Flatten(batches) == IF batches = <<>> THEN <<>> ELSE Head(batches) \o Flatten(Tail(batches))

\* C11: upsertBatch(records, batchSize) issues ceil(n / batchSize) backend
\* upsert calls (batchSize 100 by default); the batches are consecutive slices
\* of the input in input order, so every record is sent exactly once and no
\* batch exceeds batchSize. (A backend call that throws ends the loop: the
\* batches sent until then are the leading slices.)
C11_UpsertBatches ==
  storeCall.op = "upsertBatch" =>
    LET chunks == storeCall.chunks
        sent == storeCall.batches
        flat == Flatten(sent)
        calls_ == (Len(chunks) + storeCall.batchSize - 1) \div storeCall.batchSize
    IN /\ Len(sent) <= calls_
       /\ ~storeCall.threw => Len(sent) = calls_ /\ Len(flat) = Len(chunks)
       /\ \A j \in 1 .. Len(sent) : Len(sent[j]) >= 1 /\ Len(sent[j]) <= storeCall.batchSize
       /\ \A j \in 1 .. Len(sent) - 1 : Len(sent[j]) = storeCall.batchSize
       /\ Len(flat) <= Len(chunks)
       /\ \A k \in 1 .. Len(flat) :
            flat[k].videoId = chunks[k].videoId /\ flat[k].chunk = chunks[k].chunk

\* Three chunks have been upserted with batchSize 2, in two calls.
C11_Witness ==
  /\ storeCall.op = "upsertBatch"
  /\ ~storeCall.threw
  /\ Len(storeCall.chunks) = 3
  /\ storeCall.batchSize = 2
  /\ Len(storeCall.batches) = 2

(***************************************************************************)
(* YouTubeService: properties                                              *)
(***************************************************************************)
\* C12: getVideoTranscript calls info.getTranscript zero times when the
\* caption listing is absent or empty, and then returns Failure{NO_CAPTIONS};
\* otherwise it makes between one and three attempts, every attempt but the
\* last one made having failed as TRANSIENT_ERROR, and the classification of
\* the last attempt is what it returns.
C12_TranscriptAttempts ==
  LET log == transcriptCall.log
  IN /\ Len(log) <= 3
     /\ \A k \in 1 .. Len(log) - 1 : log[k] = "TRANSIENT_ERROR"
     /\ transcriptCall.pc \in {"getTranscript", "backoff"} =>
          \A k \in 1 .. Len(log) : log[k] = "TRANSIENT_ERROR"
     /\ transcriptCall.pc = "done" /\ transcriptCall.captions \in CaptionListings \ {"tracks"} =>
          Len(log) = 0 /\ transcriptCall.result = failure("NO_CAPTIONS")
     /\ transcriptCall.pc = "done" /\ transcriptCall.captions = "tracks" =>
          /\ Len(log) >= 1
          /\ transcriptCall.result.category = log[Len(log)]
          /\ transcriptCall.result.success <=> log[Len(log)] = "Success"

\* A second attempt, made after a transient failure, has succeeded.
C12_Witness ==
  /\ transcriptCall.pc = "done"
  /\ transcriptCall.log = <<"TRANSIENT_ERROR", "Success">>
  /\ transcriptCall.result.success

\* The last attempt of the finished call returned a transcriptInfo.
AttemptReturned == transcriptCall.pc = "done" /\ transcriptCall.info # NoInfo

\* C13 (as the code has it): getVideoTranscript returns Failure{TOO_SHORT}
\* exactly when segments were materialized and the normalized text has at
\* most 10 characters; every Success carries a text of more than 10
\* characters, the normalized text of the segments.
C13_TooShortAtMostThreshold ==
  AttemptReturned =>
    LET segments == transcriptCall.info.segments
        fullText == fullTextOf(segments)
    IN /\ transcriptCall.result.category = "TOO_SHORT" <=>
            transcriptCall.info.valid /\ Len(segments) > 0 /\ Len(fullText) <= 10
       /\ transcriptCall.result.success =>
            transcriptCall.result.transcript = fullText /\ Len(fullText) > 10

\* Two segments of 4 and 5 characters were joined to a text of exactly 10
\* characters, and the call has returned.
C13_Witness ==
  /\ AttemptReturned
  /\ transcriptCall.info.valid
  /\ Len(transcriptCall.info.segments) = 2
  /\ Len(fullTextOf(transcriptCall.info.segments)) = 10
  /\ transcriptCall.result.category = "TOO_SHORT"

\* C13 (as stated): Failure{TOO_SHORT} exactly when segments were
\* materialized and the normalized text is shorter than 10 characters; every
\* Success carries a text of at least 10 characters.
C13_TooShortBelowThreshold ==
  AttemptReturned =>
    LET segments == transcriptCall.info.segments
        fullText == fullTextOf(segments)
    IN /\ transcriptCall.result.category = "TOO_SHORT" <=>
            transcriptCall.info.valid /\ Len(segments) > 0 /\ Len(fullText) < 10
       /\ transcriptCall.result.success => Len(transcriptCall.result.transcript) >= 10

\* What a contentDetails.duration value means as an ISO-8601 duration, in
\* seconds; -1 for a value that is missing or is no ISO-8601 duration.
Iso8601Seconds(meta) ==
  CASE meta = PT30S -> 30
    [] meta = PT1M -> 60
    [] meta = P1D -> 86400
    [] OTHER -> 0 - 1

InSelection(seq) == {seq[k] : k \in 1 .. Len(seq)}

\* C14: with excludeShorts, the shorts filter removes only videos whose
\* duration parses as an ISO-8601 duration of under 60 seconds; a video whose
\* duration is missing or unparseable is retained.
C14_ShortsFilterFailsOpen ==
  selection.called /\ selection.excludeShorts =>
    \A v \in InSelection(selection.videosToCheck) \ InSelection(selection.afterShortsFilter) :
      LET secs == Iso8601Seconds(selection.metadata[v])
      IN secs >= 0 /\ secs < 60

\* The videos of the channel that are not in the already-indexed set and,
\* under excludeShorts, that the shorts filter keeps.
Eligible ==
  {v \in InSelection(selection.videos) :
     /\ v \notin selection.skipExisting
     /\ selection.excludeShorts => keepsVideo(selection.metadata[v])}

\* C15: with a cap L, the number of videos processed is min(L, number of
\* not-already-indexed videos), counting only the non-short ones when
\* short-exclusion is requested: the cap is never under-filled.
C15_CapNotUnderFilled ==
  selection.called /\ selection.limit > 0 =>
    Len(selection.finalVideosToProcess) =
      IF Cardinality(Eligible) < selection.limit THEN Cardinality(Eligible)
      ELSE selection.limit

\* C16: when no video remains, the failure's message names the cause: no
\* videos exactly when the channel's list is empty, all already indexed
\* exactly when every channel video is in the already-indexed set, all Shorts
\* exactly when the already-indexed set removed none and the shorts filter
\* removed all, and the combined message exactly when the already-indexed set
\* removed some and the shorts filter removed all the rest.
C16_MessageNamesCause ==
  selection.called /\ selection.finalVideosToProcess = <<>> =>
    LET ids == InSelection(selection.videos)
        remaining == ids \ selection.skipExisting
        shorts == IF selection.excludeShorts
                  THEN {v \in remaining : ~keepsVideo(selection.metadata[v])}
                  ELSE {}
    IN /\ selection.error # "none"
       /\ selection.error = "This channel has no videos" <=> ids = {}
       /\ selection.error = "All videos are already indexed" <=>
            ids # {} /\ remaining = {}
       /\ selection.error = "All videos are YouTube Shorts" <=>
            remaining = ids /\ remaining # {} /\ shorts = remaining
       /\ selection.error = "After skipping indexed videos and filtering out Shorts" <=>
            remaining # ids /\ remaining # {} /\ shorts = remaining

(***************************************************************************)
(* Skip-existing across runs                                               *)
(***************************************************************************)
\* C17: once a run has saved its bookkeeping, the channel's persisted
\* indexed-video set holds every video of its success list; and a run started
\* with skip-existing, under the canonical id or the handle, processes no
\* video that the persisted set of the channel already holds.
C17_SkipExistingAccurate ==
  \A r \in Runs :
    /\ runs[r].pc = "finishing" =>
         \A k \in 1 .. Len(runs[r].indexedVideoIds) :
           InSeq(runs[r].indexedVideoIds[k], getIndexedVideos(canonicalId))
    /\ runs[r].skipExisting /\ runs[r].pc \in {"embedding", "delay", "upserting"} =>
         \A k \in 1 .. Len(runs[r].transcripts) :
           ~InSeq(runs[r].transcripts[k], getIndexedVideos(canonicalId))

(***************************************************************************)
(* YouTubeRateLimiter: properties of the outcome of apiCall                *)
(***************************************************************************)
\* The step in which the apiCall of call c settles.
ApiCallSettles(c) == calls[c].st = "running" /\ calls'[c].st # "running"

C19_QuotaErrorTerminal ==
  [][\A c \in Calls :
       ApiCallSettles(c) /\ calls'[c].failure = "quotaExceeded403" =>
         /\ calls'[c].st = "rejected"
         /\ calls'[c].error = "QuotaExceeded"
         /\ quotaUsed' = quotaLimit'
         /\ quotaFile'.exists
         /\ quotaFile'.used = quotaLimit']_vars

\* C20: in executeWithRetry a failure of apiCall with a 4xx status other than
\* 429 is terminal: the call is not run again and rejects with that error;
\* a call that failed with 429 or without a 4xx status is given up only after
\* maxRetries rounds.
C20_ClientErrorTerminal ==
  \A c \in Calls :
    calls[c].loop # NoLoop =>
      /\ calls[c].failure = "notFound404" =>
           calls[c].st \in {"rejected", "thrown"} /\ calls[c].error = "notFound404"
      /\ calls[c].error \in {"tooManyRequests429", "network"} /\ calls[c].st = "thrown" =>
           calls[c].loop = maxRetries - 1

\* C21: executeWithRetry always terminates: every call made through it is
\* eventually resolved or rejects with its last error; none is retried
\* indefinitely or left unresolved.
C21_RetryTerminates ==
  \A c \in Calls :
    (calls[c].loop # NoLoop) ~> (calls[c].st \in {"resolved", "thrown"})

(***************************************************************************)
(* Quota reset: properties                                                 *)
(***************************************************************************)
\* C22: a reset sets quotaResetDate to a time strictly later than the current
\* time, whatever the time of day and the time zone of the process, so the
\* polls up to that boundary reset nothing; and usage is zeroed only by a
\* poll at or after the boundary.
C22_ResetOncePerBoundary ==
  [][/\ clock'.quotaResetDate # clock.quotaResetDate =>
          clock'.quotaResetDate > clock.now
     /\ clock'.used < clock.used =>
          clock.quotaResetDate = NoDate \/ clock.now >= clock.quotaResetDate]_vars

\* C23: between two resets each of the events quotaWarning, quotaCritical and
\* quotaExhausted is emitted at most once, not on every call made while the
\* usage stays above the threshold.
C23_EventsOncePerCrossing ==
  \A e \in QuotaEvents : meter.emitted[e] <= 1

\* C24: splitTranscript returns the chunks in document order, chunk i carrying
\* chunkIndex = i and totalChunks = the number of chunks, each with the
\* caller's metadata; an empty split gives an empty list.
C24_ChunksIndexedInOrder ==
  embed.pc # "idle" =>
    LET chunks == embed.chunks
    IN /\ \A k \in 1 .. Len(chunks) :
            /\ chunks[k].metadata.chunkIndex = k - 1
            /\ chunks[k].metadata.totalChunks = Len(chunks)
            /\ chunks[k].metadata.chunkIndex >= 0
            /\ chunks[k].metadata.chunkIndex < chunks[k].metadata.totalChunks
            /\ chunks[k].metadata.videoId = embed.video.videoId
            /\ chunks[k].metadata.videoTitle = embed.video.title
            /\ chunks[k].content = SubSeq(embed.transcript, chunks[k].metadata.loc,
                                          chunks[k].metadata.loc + Len(chunks[k].content) - 1)
       /\ \A k \in 1 .. Len(chunks) - 1 : chunks[k].metadata.loc < chunks[k + 1].metadata.loc
       /\ Len(embed.transcript) = 0 => chunks = <<>>

C24_Witness ==
  /\ embed.pc = "loop"
  /\ Len(embed.chunks) >= 2

\* C25: processVideo requests the embeddings one at a time in chunk order and
\* returns exactly one record per chunk, with id <videoId>_chunk_<index>; when
\* an embedding fails the call fails and returns no record.
C25_ProcessVideoAllOrNothing ==
  /\ \A k \in 1 .. Len(embed.requested) : embed.requested[k] = k - 1
  /\ Len(embed.requested) \in {Len(embed.processedChunks), Len(embed.processedChunks) + 1}
  /\ embed.pc = "returned" =>
       /\ Len(embed.result) = Len(embed.chunks)
       /\ \A k \in 1 .. Len(embed.result) :
            /\ embed.result[k].id = chunkId(embed.video.videoId, k - 1)
            /\ embed.result[k].content = embed.chunks[k].content
  /\ embed.pc = "thrown" => embed.result = <<>>

C25_Witness ==
  /\ embed.pc = "thrown"
  /\ Len(embed.processedChunks) >= 1


PageRequests == Len(SelectSeq(catalogCall.requests, LAMBDA q : q = "playlistItems.list"))

\* C27: getChannelVideos follows the pages of the playlist to the first one
\* without a continuation token: unless a request fails, it returns after
\* exactly as many page requests as the playlist has pages.
C27_OneRequestPerPage ==
  /\ catalogCall.op = "getChannelVideos"
  /\ catalogCall.pc \in {"returned", "thrown"}
  /\ ~catalogCall.requestFailed
  => /\ catalogCall.pc = "returned"
     /\ PageRequests = catalogCall.pages

\* C28: every request to the catalog is metered: a step that makes a request
\* raises quotaUsed.
C28_RequestsAreMetered ==
  [][Len(catalogCall'.requests) > Len(catalogCall.requests) => quotaUsed' > quotaUsed]_vars

\* C29: upserting is all-or-nothing: an upsertBatch call that fails leaves
\* none of its records in the vector index.
C29_FailedUpsertStoresNothing ==
  [][storeCall'.op = "upsertBatch" /\ storeCall'.threw /\ storeCall' # storeCall
       => vstore' \subseteq vstore]_vars

\* C29, the run's side: a run whose upsert fails ends with the error status
\* and the channel bookkeeping and the ledger as they were.
C29_FailedUpsertBooksNothing ==
  [][\A r \in Runs : upsertFails(r) =>
        /\ channels' = channels
        /\ indexingLogs' = indexingLogs
        /\ ~indexingStatus'.isIndexing]_vars

\* C30: the ledger is append-only and gets exactly one entry for every run
\* that ends, whether completed, failed or cancelled.
C30_OneLedgerEntryPerRun ==
  [][/\ Len(indexingLogs') >= Len(indexingLogs)
     /\ SubSeq(indexingLogs', 1, Len(indexingLogs)) = indexingLogs
     /\ \A r \in Runs :
          runs[r].pc \in ActivePcs /\ runs'[r].pc = "idle"
            => Len(indexingLogs') = Len(indexingLogs) + 1]_vars

\* C31: once a video's transcript fails with the quota error, the run stops:
\* no further video is attempted after it.
C31_StopsAtQuotaError ==
  \A k \in 1 .. Len(transcriptLoop.attempted) - 1 :
    transcriptLoop.attempted[k] # "RATE_LIMIT"

\* C32: parseDuration returns hours*3600 + minutes*60 + seconds for a
\* duration PT[nH][nM][nS] and 0 for every invalid input, null included.
C32_ParseDurationTotal ==
  durationCall.pc = "done" =>
    /\ ~durationCall.threw
    /\ durationCall.value = durationCall.seconds

\* C32 without null: every string input is parsed as the claim says.
C32_StringsParsed ==
  durationCall.pc = "done" /\ durationCall.text # NullDuration =>
    /\ ~durationCall.threw
    /\ durationCall.value = durationCall.seconds

\* The keyword families in their order, with the category of each.
Families ==
  << [keys |-> {"disabled"}, category |-> "CAPTIONS_DISABLED"],
     [keys |-> {"not available", "no transcript"}, category |-> "NO_CAPTIONS"],
     [keys |-> {"private", "unavailable", "age"}, category |-> "PRIVATE_OR_RESTRICTED"],
     [keys |-> {"expandablemetadata", "structure"}, category |-> "STRUCTURE_UNSUPPORTED"],
     [keys |-> {"quota"}, category |-> "RATE_LIMIT"],
     [keys |-> {"timeout", "timed out", "network", "econn", "socket"},
      category |-> "TRANSIENT_ERROR"] >>

\* C33: the category is that of the first family, in the fixed order, of
\* which the message contains a keyword, and UNKNOWN exactly when it contains
\* none; a message is TRANSIENT_ERROR only without keyword of an earlier family.
C33_FirstFamilyWins ==
  classified.msg # NoMessage =>
    LET hits == {k \in 1 .. Len(Families) : Families[k].keys \cap classified.msg # {}}
    IN /\ hits = {} <=> classified.category = "UNKNOWN"
       /\ hits # {} =>
            classified.category = Families[CHOOSE k \in hits : \A j \in hits : k <= j].category
       /\ classified.category = "TRANSIENT_ERROR" =>
            \A k \in 1 .. Len(Families) - 1 : Families[k].keys \cap classified.msg = {}

C33_Witness ==
  /\ classified.msg = {"socket", "disabled"}
  /\ classified.category = "CAPTIONS_DISABLED"

\* The namespace a stored record was upserted under: the raw ids of the
\* model never start with "p_", so the prefix tells.
UpsertedUnder(record) ==
  IF startsWith(record.id, <<"p", "_">>) THEN <<"p">> ELSE <<>>

\* C34: a query issued under a namespace (the absent namespace included)
\* never returns a record that was upserted under another one.
C34_NamespaceIsolation ==
  storeCall.op = "query" /\ ~storeCall.threw =>
    \A k \in 1 .. Len(storeCall.returned) :
      UpsertedUnder(storeCall.returned[k]) = storeCall.ns

\* C35: the records of a run are upserted into the vector store that was
\* current when the run started, whatever happens to the projects meanwhile.
C35_RunKeepsItsStore ==
  projectState.run.pc = "upserted" =>
    projectState.run.upsertedTo = projectState.run.startedWith

\* C36: every started run eventually ends and isIndexing eventually becomes
\* false after each accepted start, whether the run completes, fails, is
\* cancelled or is interleaved with a reset.
C36_RunsEnd ==
  /\ \A r \in Runs : ActiveRun(r) ~> ~ActiveRun(r)
  /\ indexingStatus.isIndexing ~> ~indexingStatus.isIndexing

C36_Witness ==
  /\ ~indexingStatus.isIndexing
  /\ Len(indexingLogs) >= 1
  /\ \A r \in Runs : ~ActiveRun(r)

\* C37: when all 3 attempts fail with TRANSIENT_ERROR the call returns
\* Failure{TRANSIENT_ERROR} with the message of the last error; the fallback
\* Failure{UNKNOWN, 'Exhausted transcript attempts'} is never returned; and
\* the call always ends with a result.
C37_TransientExhaustion ==
  transcriptCall.pc = "done" =>
    /\ transcriptCall.details # ExhaustedDetails
    /\ transcriptCall.result # NoResult
    /\ transcriptCall.log = <<"TRANSIENT_ERROR", "TRANSIENT_ERROR", "TRANSIENT_ERROR">> =>
         /\ transcriptCall.result = failure("TRANSIENT_ERROR")
         /\ Len(transcriptCall.errors) = 3
         /\ transcriptCall.details = transcriptCall.errors[3]

\* Three attempts failed, the first two on a timeout and the last one on a
\* network error, whose message is returned.
C37_Witness ==
  /\ transcriptCall.pc = "done"
  /\ transcriptCall.errors = << {"timeout"}, {"timeout"}, {"network"} >>
  /\ transcriptCall.details = {"network"}

\* C38: whatever lists addIndexedVideos is called with (a list that repeats
\* an id included), every video id appears at most once in a channel's
\* indexedVideos.
C38_IndexedVideosDistinct ==
  \A c \in ChannelInputs :
    \A i, j \in 1 .. Len(channels[c].indexedVideos) :
      i # j => channels[c].indexedVideos[i] # channels[c].indexedVideos[j]

\* C38, the rest: ids already recorded stay where they are, and a list
\* whose ids are all recorded changes nothing.
C38_RecordedIdsKept ==
  [][\A c \in ChannelInputs :
       /\ Len(channels'[c].indexedVideos) >= Len(channels[c].indexedVideos)
       /\ SubSeq(channels'[c].indexedVideos, 1, Len(channels[c].indexedVideos))
            = channels[c].indexedVideos]_vars

RECURSIVE SumChunks(_)
SumChunks(entries) ==
  IF entries = <<>> THEN 0 ELSE Head(entries).chunksCreated + SumChunks(Tail(entries))

RECURSIVE LedgerChunks(_)
LedgerChunks(logs) ==
  IF logs = <<>> THEN 0 ELSE SumChunks(Head(logs).successVideos) + LedgerChunks(Tail(logs))

\* C39: once the runs on a channel have completed, its videoCount is the
\* number of ids in indexedVideos and its totalChunks is the sum of
\* chunksCreated over its successfully indexed videos.
C39_BookkeepingConsistent ==
  (\A r \in Runs : ~ActiveRun(r)) /\ channels[canonicalId].exists =>
    /\ channels[canonicalId].videoCount = Len(channels[canonicalId].indexedVideos)
    /\ channels[canonicalId].totalChunks = LedgerChunks(indexingLogs)

\* C40: get(key) returns the most recently set value exactly while the
\* lifetime given by that set has not elapsed (forever when ttlMs <= 0) and
\* null otherwise; an earlier set's expiry never applies to a later value.
C40_GetFollowsLatestSet ==
  cacheState.got # NoGet =>
    LET latest == cacheState.lastSet[cacheState.got.key]
    IN cacheState.got.result =
         (IF latest # NoSet /\ (latest.ttlMs <= 0 \/ cacheState.now <= latest.at + latest.ttlMs)
          THEN latest.value ELSE "null")

=============================================================================
